---------------------------- MODULE Spec2Model ----------------------------
(* ST7032 character-LCD driver (src/i2cLCD.cpp): the command encoder and   *)
(* the shadow state lcdSetting, as a state machine whose actions are the   *)
(* driver's operations. The I2C transport (i2c_write_blocking) is outside  *)
(* the driver: every transmission gets a result chosen by the environment. *)
EXTENDS Integers, Sequences, FiniteSets, TLC

\* lcdSetting  the shadow state (struct LCDSetting)
\* op          the operation that has just returned, with its arguments
\*             ("boot" before the first call, "idle" between two calls)
\* tx          the transmissions of that operation, in order
\* ret         the value it returned
\* t_data      the use that operation made of the transmit buffer of
\*             i2c_write_Data: the highest index its copy loop wrote (-1 if
\*             none), whether the loop came to an end, and whether the call
\*             was lost to a write past the end of the buffer
\* chipIS      the instruction table of the chip: the table-select bit of the
\*             last FUNCTIONSET command delivered to it (<<>> before the first)
VARIABLES lcdSetting, op, tx, ret, t_data, chipIS

vars == <<lcdSetting, op, tx, ret, t_data, chipIS>>

(***************************************************************************)
(* Bounds of the model.                                                    *)
(***************************************************************************)
\* The transport results of the first MaxRes transmissions of an operation
\* are chosen freely; of the transmissions after them at most one fails.
MaxRes == 2

(***************************************************************************)
(* Program constants (LCDCommands, src/i2cLCD.cpp:41-249).                 *)
(***************************************************************************)
MAX_LINES == 2
MAX_CHARS == 16
LCD_CHARACTER == 64
LCD_COMMAND == 0
CLEARDISPLAY == 1
RETURNHOME == 2
ENTRYMODESET == 4
DISPLAYONOFF == 8
FUNCTIONSET == 32
SETDDRAMADDR == 128
IS0_CURDISPSHIFT == 16
IS1_INTOSC == 16
IS1_SETICON == 64
IS1_POWERICONCTRL == 80
IS1_FOLLOWERCTRL == 96
IS1_FOLLOWERCONTRAST == 112
EIGHTBITMODE == 16
DOUBLELINE == 8
DOUBLEHEIGHT == 4
INSTRUCTIONTABLE == 1
SHIFTINCREMENT == 1
LEFT == 2
CURBLINK_ON == 1
CURSOR_ON == 2
DISPLAY_ON == 4
LCD_SETDDRAM_MASK == 127
CURSOR_LEFT == 0
CURSOR_RIGHT == 4
DISPLAY_LEFT == 8
DISPLAY_RIGHT == 12
BIAS1BY4 == 8
FREQMASK == 7
ICON_ON == 8
POWERBOOST == 4
CONTRASTUPPER_MASK == 3
FOLLOWER_ON == 8
AMPRATIO_MASK == 7
CONTRASTLOWER_MASK == 15

\* enum LCD_ICON (src/i2cLCD.h:87-114): address in the high byte, bit in the low byte.
ANTENA == 16
PHONE == 528
SOUND == 1040
INPUT == 1552
UP == 1808
DOWN == 1800
LOCK == 2320
SILENT == 2832
BAT1 == 3344
BAT2 == 3336
BAT3 == 3332
BATTERY == 3330
S76 == 3856

(***************************************************************************)
(* C integer arithmetic.                                                   *)
(***************************************************************************)
\* a & b and a | b on non-negative operands
RECURSIVE BitAnd(_, _)
BitAnd(a, b) ==
    IF a = 0 \/ b = 0 THEN 0
    ELSE (a % 2) * (b % 2) + 2 * BitAnd(a \div 2, b \div 2)

BitOr(a, b) == a + b - BitAnd(a, b)
\* conversion to uint8_t
U8(x) == x % 256
\* a & ~b for uint8_t a, b
BitClear(a, b) == a - BitAnd(a, b)
\* conversion of an int to int8_t (two's complement wrap)
I8(x) == ((x + 128) % 256) - 128
Abs(x) == IF x < 0 THEN -x ELSE x
Min(a, b) == IF a < b THEN a ELSE b


(***************************************************************************)
(* The transport adapter. An operation runs in a context c:                *)
(*   c.s    the shadow state lcdSetting                                    *)
(*   c.tx   the transmissions handed to the transport so far, each with    *)
(*          the bytes, the transport's result and the shadow instruction   *)
(*          table at the moment of the call                                *)
(*   c.ret  the value returned by the call just made                       *)
(*   c.res  the transport results the environment has chosen               *)
(*   c.junk the value found in an uninitialised variable                   *)
(*   c.t_data  the use made of the transmit buffer (see t_data)            *)
(*   c.ub   what a write past the end of the transmit buffer leads to      *)
(***************************************************************************)
Outcome == {"ok", "nak", "short"}

\* i2c_write_blocking: all bytes written, PICO_ERROR_GENERIC, or a short count
TransportResult(kind, len) ==
    CASE kind = "ok" -> len
      [] kind = "nak" -> -1
      [] OTHER -> 1

\* what a transmission does to the chip's instruction table: a FUNCTIONSET
\* command (0x20..0x3F) that arrives whole sets it to its table-select bit
Delivered(chip, bytes, r) ==
    IF r = Len(bytes) /\ Len(bytes) = 2 /\ bytes[1] = LCD_COMMAND
       /\ bytes[2] \in FUNCTIONSET..(FUNCTIONSET + 31)
    THEN <<BitAnd(bytes[2], INSTRUCTIONTABLE) # 0>>
    ELSE chip

i2c_write_blocking(c, bytes) ==
    LET k == Len(c.tx) + 1
        kind == IF k \in DOMAIN c.res THEN c.res[k] ELSE "ok"
        r == TransportResult(kind, Len(bytes))
    IN [c EXCEPT !.tx = Append(@, [b |-> bytes, r |-> r, is |-> c.s.isFunc_ISMode]),
                 !.ret = r,
                 !.chip = Delivered(@, bytes, r)]

i2c_write_byte(c, val) == i2c_write_blocking(c, <<LCD_COMMAND, U8(val)>>)

i2c_write_DataByte(c, val) == i2c_write_blocking(c, <<LCD_CHARACTER, U8(val)>>)

\* strlen: the bytes before the first null of the buffer
StrPrefix(buf) ==
    LET nulls == {i \in DOMAIN buf : buf[i] = 0}
        len == IF nulls = {} THEN Len(buf)
               ELSE (CHOOSE i \in nulls : \A j \in nulls : i <= j) - 1
    IN SubSeq(buf, 1, len)

\* mutant of i2c_write_Data: every byte of the buffer is copied, nulls included
i2c_write_Data_WholeBuffer(c, buf) ==
    LET ctl == IF Len(buf) = 0 THEN U8(c.junk) ELSE LCD_CHARACTER
    IN i2c_write_blocking(c, <<ctl>> \o buf)

\* the transmit buffer before a call: nothing written, no loop running
FreshBuffer == [top |-> -1, done |-> TRUE, lost |-> FALSE]

\* for (i = 0; i < len; i++) { t_data[0] = ...; t_data[i+1] = buf[i]; } with
\* `volatile uint8_t i` and `size_t len`: i counts 0, 1, .. 255 and wraps to
\* 0, so it takes the values of `visited` for as long as i < len holds, and
\* the loop is left only if one of the values of an 8-bit index fails i < len.
CopyLoop(len) ==
    LET visited == {i \in 0..255 : \A j \in 0..i : j < len}
        written == {i + 1 : i \in visited}
    IN [top |-> IF written = {} THEN -1
                ELSE CHOOSE w \in written : \A v \in written : v <= w,
        done |-> \E i \in 0..255 : ~(i < len),
        lost |-> FALSE]

\* what a write past t_data[MAX_CHARS * MAX_LINES] leads to: the bytes land
\* in the stack above the buffer and the call goes on as written, or the
\* call is lost (return address or locals overwritten)
Overrun == {"asWritten", "lost"}

\* t_data[0] is written inside the copy loop only: for an empty string it
\* keeps whatever the stack held. A call whose loop does not end, or that is
\* lost after an overrun, transmits nothing and does not return.
i2c_write_Data(c, buf) ==
    LET s == StrPrefix(buf)
        ctl == IF Len(s) = 0 THEN U8(c.junk) ELSE LCD_CHARACTER
        loop == CopyLoop(Len(s))
        c1 == [c EXCEPT !.t_data = loop]
    IN IF ~loop.done THEN c1
       ELSE IF loop.top > MAX_CHARS * MAX_LINES /\ c.ub = "lost"
            THEN [c1 EXCEPT !.t_data.lost = TRUE]
            ELSE i2c_write_blocking(c1, <<ctl>> \o s)

lcd_send_byte(c, val) == i2c_write_byte(c, val)

(***************************************************************************)
(* The command encoder (src/i2cLCD.cpp:435-1013). Each operator takes the  *)
(* context and the arguments of the C function and gives the context the   *)
(* function leaves, its return value in .ret.                              *)
(***************************************************************************)
Returning(c, v) == [c EXCEPT !.ret = v]

\* C statements run in order: After(c, e) is e, evaluated once the context c
\* of the statements before it has been evaluated (TLC evaluates LET on demand)
After(c, e) == IF c.ret \in Int THEN e ELSE e

lcd_ClearDisplay(c) == lcd_send_byte(c, CLEARDISPLAY)

\* mutant of lcd_CursorPosition: the second line starts at DDRAM address 0x20
lcd_CursorPosition_Line32(c, line, position) ==
    IF line = 0
    THEN lcd_send_byte(c, BitOr(SETDDRAMADDR, BitAnd(LCD_SETDDRAM_MASK, position)))
    ELSE lcd_send_byte(c, BitOr(SETDDRAMADDR,
                                BitOr(32, BitAnd(LCD_SETDDRAM_MASK, position))))

\* mutant of lcd_CursorPosition: the position is also kept in the shadow state
lcd_CursorPosition_Tracked(c, line, position) ==
    LET val == IF line = 0
               THEN BitOr(SETDDRAMADDR, BitAnd(LCD_SETDDRAM_MASK, position))
               ELSE BitOr(SETDDRAMADDR, BitOr(64, BitAnd(LCD_SETDDRAM_MASK, position)))
        c1 == lcd_send_byte(c, val)
    IN [c1 EXCEPT !.s = [cursorLine |-> line, cursorColumn |-> position] @@ c1.s]

lcd_CursorPosition(c, line, position) ==
    LET val == IF line = 0
               THEN BitOr(SETDDRAMADDR, BitAnd(LCD_SETDDRAM_MASK, position))
               ELSE BitOr(SETDDRAMADDR, BitOr(64, BitAnd(LCD_SETDDRAM_MASK, position)))
    IN lcd_send_byte(c, val)

\* mutant of lcd_ReturnHome: the cursor is repositioned in both directions
lcd_ReturnHome_AlwaysReposition(c) ==
    LET c1 == lcd_send_byte(c, RETURNHOME)
        c2 == lcd_CursorPosition(c1, 0, MAX_CHARS - 1)
    IN Returning(c2, c1.ret)

\* the result of the second command (right-to-left mode) is dropped
lcd_ReturnHome(c) ==
    LET c1 == lcd_send_byte(c, RETURNHOME)
        c2 == IF c1.s.isDisplayToLeft
              THEN lcd_CursorPosition(c1, 0, MAX_CHARS - 1)
              ELSE c1
    IN Returning(c2, c1.ret)

\* mutant of lcd_EntryModeSet: the direction is stored only after a send that
\* reported both bytes
lcd_EntryModeSet_StoreOnSuccess(c, a_isDisplayToLeft) ==
    LET val == IF a_isDisplayToLeft
               THEN BitOr(ENTRYMODESET, BitOr(LEFT, SHIFTINCREMENT))
               ELSE ENTRYMODESET
        c1 == lcd_send_byte(c, val)
    IN IF c1.ret = 2
       THEN [c1 EXCEPT !.s.isDisplayToLeft = a_isDisplayToLeft]
       ELSE c1

lcd_EntryModeSet(c, a_isDisplayToLeft) ==
    LET val == IF a_isDisplayToLeft
               THEN BitOr(ENTRYMODESET, BitOr(LEFT, SHIFTINCREMENT))
               ELSE ENTRYMODESET
        c1 == lcd_send_byte(c, val)
    IN [c1 EXCEPT !.s.isDisplayToLeft = a_isDisplayToLeft]

\* mutant of lcd_FunctionSet: the table-select bit goes to the chip and is not
\* stored in the shadow
lcd_FunctionSet_TableUnstored(c, mode) ==
    LET c1 == [c EXCEPT
                 !.s.isFunc_2LINE = (BitAnd(mode, DOUBLELINE) # 0),
                 !.s.isFunc_DoubleHeight = (BitAnd(mode, DOUBLEHEIGHT) # 0),
                 !.s.isFunc_8Bit = (BitAnd(mode, EIGHTBITMODE) # 0)]
    IN lcd_send_byte(c1, BitOr(FUNCTIONSET, mode))

\* lcd_FunctionSet(uint8_t mode): the shadow fields are written before the send
lcd_FunctionSet(c, mode) ==
    LET c1 == [c EXCEPT
                 !.s.isFunc_ISMode = (BitAnd(mode, INSTRUCTIONTABLE) # 0),
                 !.s.isFunc_2LINE = (BitAnd(mode, DOUBLELINE) # 0),
                 !.s.isFunc_DoubleHeight = (BitAnd(mode, DOUBLEHEIGHT) # 0),
                 !.s.isFunc_8Bit = (BitAnd(mode, EIGHTBITMODE) # 0)]
    IN lcd_send_byte(c1, BitOr(FUNCTIONSET, mode))

\* lcd_FunctionSet(bool is8Bit, bool is2Line, bool isExtInstruction)
lcd_FunctionSetFlags(c, is8Bit, is2Line, isExtInstruction) ==
    LET o1 == IF is8Bit THEN EIGHTBITMODE ELSE 0
        o2 == BitOr(o1, IF is2Line THEN DOUBLELINE ELSE DOUBLEHEIGHT)
        o3 == BitOr(o2, IF isExtInstruction THEN INSTRUCTIONTABLE ELSE 0)
    IN lcd_FunctionSet(c, o3)

lcd_2LineMode(c, is2Line) ==
    lcd_FunctionSetFlags(c, c.s.isFunc_8Bit, is2Line, c.s.isFunc_ISMode)

\* mutant of ShadowFuncBits: the double-height bit is not carried over
ShadowFuncBits_NoHeight(s) ==
    BitOr(IF s.isFunc_2LINE THEN DOUBLELINE ELSE 0,
          IF s.isFunc_8Bit THEN EIGHTBITMODE ELSE 0)

\* the FUNCTIONSET option bits rebuilt from the shadow state
ShadowFuncBits(s) ==
    BitOr(IF s.isFunc_2LINE THEN DOUBLELINE ELSE 0,
          BitOr(IF s.isFunc_DoubleHeight THEN DOUBLEHEIGHT ELSE 0,
                IF s.isFunc_8Bit THEN EIGHTBITMODE ELSE 0))

\* mutant of lcd_NormalMode: FUNCTIONSET is sent whatever the shadow table is
lcd_NormalMode_Always(c) == lcd_FunctionSet(c, ShadowFuncBits(c.s))

lcd_NormalMode(c) ==
    IF c.s.isFunc_ISMode
    THEN lcd_FunctionSet(c, ShadowFuncBits(c.s))
    ELSE Returning(c, 0)

\* mutant of lcd_ExtendMode: the table switch is left out
lcd_ExtendMode_NoSwitch(c) == Returning(c, 0)

lcd_ExtendMode(c) ==
    IF c.s.isFunc_ISMode
    THEN Returning(c, 0)
    ELSE lcd_FunctionSet(c, BitOr(INSTRUCTIONTABLE, ShadowFuncBits(c.s)))

\* int iSendBytes; is never initialised: the sum starts from c.junk
lcd_InternalOSCSet(c, isBs, OSCFreq) ==
    LET val0 == BitOr(IS1_INTOSC, BitAnd(FREQMASK, OSCFreq))
        c1 == lcd_ExtendMode(c)
        val == IF isBs THEN BitOr(val0, BIAS1BY4) ELSE val0
        c2 == lcd_send_byte(c1, val)
        c3 == lcd_NormalMode(c2)
    IN [c3 EXCEPT !.s.isBias1By4 = isBs,
                  !.s.OSCFreq = U8(OSCFreq),
                  !.ret = c.junk + c1.ret + c2.ret + c3.ret]

\* mutant of lcd_CursorMode: the cursor is marked as shown whatever the mode
lcd_CursorMode_AlwaysShown(c, isDisplayOn, isUnderLine, isBlink) ==
    LET mode == BitOr(IF isDisplayOn THEN DISPLAY_ON ELSE 0,
                      BitOr(IF isUnderLine THEN CURSOR_ON ELSE 0,
                            IF isBlink THEN CURBLINK_ON ELSE 0))
        c1 == [c EXCEPT !.s.isDisplayOn = isDisplayOn,
                        !.s.isUnderLine = isUnderLine,
                        !.s.isBlink = isBlink]
        c2 == lcd_send_byte(c1, BitOr(DISPLAYONOFF, mode))
    IN [c2 EXCEPT !.s.isCursorDisplay = TRUE,
                  !.ret = IF c2.ret # 0 THEN 1 ELSE 0]

lcd_CursorMode(c, isDisplayOn, isUnderLine, isBlink) ==
    LET mode == BitOr(IF isDisplayOn THEN DISPLAY_ON ELSE 0,
                      BitOr(IF isUnderLine THEN CURSOR_ON ELSE 0,
                            IF isBlink THEN CURBLINK_ON ELSE 0))
        c1 == [c EXCEPT !.s.isDisplayOn = isDisplayOn,
                        !.s.isUnderLine = isUnderLine,
                        !.s.isBlink = isBlink]
        c2 == lcd_send_byte(c1, BitOr(DISPLAYONOFF, mode))
    IN \* bool iRet: the int result is converted to bool and back to int
       [c2 EXCEPT !.s.isCursorDisplay = (isUnderLine \/ isBlink),
                  !.ret = IF c2.ret # 0 THEN 1 ELSE 0]

\* mutant of lcd_CursorDisplay: the test of isUnderLine and isBlink is left out
lcd_CursorDisplay_NoGuard(c, isDisp) ==
    IF isDisp
    THEN LET c1 == lcd_CursorMode(c, c.s.isDisplayOn, c.s.isUnderLine, c.s.isBlink)
         IN [c1 EXCEPT !.s.isCursorDisplay = TRUE]
    ELSE LET c1 == lcd_send_byte(c,
                     BitOr(DISPLAYONOFF, IF c.s.isDisplayOn THEN DISPLAY_ON ELSE 0))
         IN [c1 EXCEPT !.s.isCursorDisplay = FALSE]

\* mutant of lcd_CursorDisplay: hiding the cursor also clears the stored
\* underline and blink flags
lcd_CursorDisplay_HideForgets(c, isDisp) ==
    IF ~c.s.isUnderLine /\ ~c.s.isBlink
    THEN Returning(c, 0)
    ELSE IF isDisp
         THEN LET c1 == lcd_CursorMode(c, c.s.isDisplayOn, c.s.isUnderLine, c.s.isBlink)
              IN [c1 EXCEPT !.s.isCursorDisplay = TRUE]
         ELSE LET c1 == lcd_send_byte(c,
                          BitOr(DISPLAYONOFF, IF c.s.isDisplayOn THEN DISPLAY_ON ELSE 0))
              IN [c1 EXCEPT !.s.isCursorDisplay = FALSE,
                            !.s.isUnderLine = FALSE,
                            !.s.isBlink = FALSE]

lcd_CursorDisplay(c, isDisp) ==
    IF ~c.s.isUnderLine /\ ~c.s.isBlink
    THEN Returning(c, 0)
    ELSE IF isDisp
         THEN LET c1 == lcd_CursorMode(c, c.s.isDisplayOn, c.s.isUnderLine, c.s.isBlink)
              IN [c1 EXCEPT !.s.isCursorDisplay = TRUE]
         ELSE LET c1 == lcd_send_byte(c,
                          BitOr(DISPLAYONOFF, IF c.s.isDisplayOn THEN DISPLAY_ON ELSE 0))
              IN [c1 EXCEPT !.s.isCursorDisplay = FALSE]

lcd_string(c, s) == i2c_write_Data(c, s)

\* lcd_printf, for a format and arguments whose full output is `out`:
\* vsnprintf keeps the first sizeof(aryLCDBuf) - 1 characters and terminates
\* them; the function is void
lcd_printf(c, out) ==
    LET n == (MAX_LINES * MAX_CHARS + 1) - 1
        aryLCDBuf == SubSeq(out, 1, Min(Len(out), n)) \o <<0>>
        c1 == lcd_string(c, aryLCDBuf)
    IN Returning(c1, 0)

\* int iSendBytes; is never initialised here either
lcd_FollowerControlSet(c, isOnOff, ampRatio) ==
    LET val0 == BitOr(IS1_FOLLOWERCTRL, BitAnd(AMPRATIO_MASK, ampRatio))
        c1 == lcd_ExtendMode(c)
        val == IF isOnOff THEN BitOr(val0, FOLLOWER_ON) ELSE val0
        c2 == lcd_send_byte(c1, val)
        c3 == lcd_NormalMode(c2)
    IN [c3 EXCEPT !.s.isFollowerOnOff = isOnOff,
                  !.s.followerAmpRatio = U8(ampRatio),
                  !.ret = c.junk + c1.ret + c2.ret + c3.ret]

\* mutant of lcd_ContrastPowerIconSet: the upper bits are taken from contrast >> 3
lcd_ContrastPowerIconSet_Shift3(c, contrast, is_PowerIconCtrl_IconOn, is_PowerIconCtrl_Boost) ==
    LET c1 == lcd_ExtendMode(c)
        otherBit == BitOr(IF is_PowerIconCtrl_IconOn THEN ICON_ON ELSE 0,
                          IF is_PowerIconCtrl_Boost THEN POWERBOOST ELSE 0)
        c2 == [c1 EXCEPT !.s.uiContrast = U8(contrast),
                         !.s.isPowerIconOn = is_PowerIconCtrl_IconOn,
                         !.s.isPowerBoost = is_PowerIconCtrl_Boost]
        c3 == lcd_send_byte(c2, BitOr(IS1_FOLLOWERCONTRAST,
                                      BitAnd(CONTRASTLOWER_MASK, contrast)))
        c4 == lcd_send_byte(c3, BitOr(IS1_POWERICONCTRL,
                                      BitOr(otherBit,
                                            BitAnd(CONTRASTUPPER_MASK, contrast \div 8))))
    IN IF c3.ret # 2 THEN c3
       ELSE IF c4.ret # 2 THEN c4
       ELSE Returning(lcd_NormalMode(c4), 4)

\* mutant of lcd_ContrastPowerIconSet: the result of the low-nibble send is
\* not looked at before the upper bits are sent
lcd_ContrastPowerIconSet_NoAbort(c, contrast, is_PowerIconCtrl_IconOn, is_PowerIconCtrl_Boost) ==
    LET c1 == lcd_ExtendMode(c)
        otherBit == BitOr(IF is_PowerIconCtrl_IconOn THEN ICON_ON ELSE 0,
                          IF is_PowerIconCtrl_Boost THEN POWERBOOST ELSE 0)
        c2 == [c1 EXCEPT !.s.uiContrast = U8(contrast),
                         !.s.isPowerIconOn = is_PowerIconCtrl_IconOn,
                         !.s.isPowerBoost = is_PowerIconCtrl_Boost]
        c3 == lcd_send_byte(c2, BitOr(IS1_FOLLOWERCONTRAST,
                                      BitAnd(CONTRASTLOWER_MASK, contrast)))
        c4 == lcd_send_byte(c3, BitOr(IS1_POWERICONCTRL,
                                      BitOr(otherBit,
                                            BitAnd(CONTRASTUPPER_MASK, contrast \div 16))))
    IN IF c4.ret # 2 THEN c4
       ELSE Returning(lcd_NormalMode(c4), 4)

\* mutant of lcd_ContrastPowerIconSet: the shadow fields are written only
\* after both sends reported 2 bytes
lcd_ContrastPowerIconSet_StoreLast(c, contrast, is_PowerIconCtrl_IconOn, is_PowerIconCtrl_Boost) ==
    LET c1 == lcd_ExtendMode(c)
        otherBit == BitOr(IF is_PowerIconCtrl_IconOn THEN ICON_ON ELSE 0,
                          IF is_PowerIconCtrl_Boost THEN POWERBOOST ELSE 0)
        c3 == lcd_send_byte(c1, BitOr(IS1_FOLLOWERCONTRAST,
                                      BitAnd(CONTRASTLOWER_MASK, contrast)))
        c4 == lcd_send_byte(c3, BitOr(IS1_POWERICONCTRL,
                                      BitOr(otherBit,
                                            BitAnd(CONTRASTUPPER_MASK, contrast \div 16))))
        c5 == [c4 EXCEPT !.s.uiContrast = U8(contrast),
                         !.s.isPowerIconOn = is_PowerIconCtrl_IconOn,
                         !.s.isPowerBoost = is_PowerIconCtrl_Boost]
    IN IF c3.ret # 2 THEN c3
       ELSE IF c4.ret # 2 THEN c4
       ELSE Returning(lcd_NormalMode(c5), 4)

\* the shadow fields are written before the first send; a send that does
\* not report 2 bytes returns at once, without lcd_NormalMode
lcd_ContrastPowerIconSet(c, contrast, is_PowerIconCtrl_IconOn, is_PowerIconCtrl_Boost) ==
    LET c1 == lcd_ExtendMode(c)
        otherBit == BitOr(IF is_PowerIconCtrl_IconOn THEN ICON_ON ELSE 0,
                          IF is_PowerIconCtrl_Boost THEN POWERBOOST ELSE 0)
        c2 == [c1 EXCEPT !.s.uiContrast = U8(contrast),
                         !.s.isPowerIconOn = is_PowerIconCtrl_IconOn,
                         !.s.isPowerBoost = is_PowerIconCtrl_Boost]
        c3 == lcd_send_byte(c2, BitOr(IS1_FOLLOWERCONTRAST,
                                      BitAnd(CONTRASTLOWER_MASK, contrast)))
        c4 == lcd_send_byte(c3, BitOr(IS1_POWERICONCTRL,
                                      BitOr(otherBit,
                                            BitAnd(CONTRASTUPPER_MASK, contrast \div 16))))
    IN IF c3.ret # 2 THEN c3
       ELSE IF c4.ret # 2 THEN c4
       ELSE Returning(lcd_NormalMode(c4), 4)

lcd_contrastSet(c, contrast) ==
    lcd_ContrastPowerIconSet(c, contrast, c.s.isPowerIconOn, c.s.isPowerBoost)

\* mutant of lcd_IconSetRAW: the requested bits replace the stored byte
lcd_IconSetRAW_Overwrite(c, isDisp, iconAddr, bits) ==
    LET curValue == IF isDisp THEN U8(bits) ELSE 0
        c1 == lcd_ExtendMode(c)
        c2 == lcd_send_byte(c1, BitOr(IS1_SETICON, iconAddr))
        c3 == i2c_write_DataByte(c2, curValue)
        c4 == [c3 EXCEPT !.s.aryIconValue[iconAddr] = curValue]
        c5 == lcd_NormalMode(c4)
        c6 == lcd_ReturnHome(c5)
    IN Returning(c6, c1.ret + c2.ret + c3.ret + c5.ret + c6.ret)

lcd_IconSetRAW(c, isDisp, iconAddr, bits) ==
    LET cur == c.s.aryIconValue[iconAddr]
        curValue == IF isDisp THEN U8(BitOr(cur, bits)) ELSE BitClear(cur, bits)
        c1 == lcd_ExtendMode(c)
        c2 == lcd_send_byte(c1, BitOr(IS1_SETICON, iconAddr))
        c3 == i2c_write_DataByte(c2, curValue)
        c4 == [c3 EXCEPT !.s.aryIconValue[iconAddr] = curValue]
        c5 == lcd_NormalMode(c4)
        c6 == lcd_ReturnHome(c5)
    IN Returning(c6, c1.ret + c2.ret + c3.ret + c5.ret + c6.ret)

\* mutant of lcd_IconSet: all five icon bits of the address are switched
lcd_IconSet_WholeAddress(c, isDisp, icon) ==
    lcd_IconSetRAW(c, isDisp, (icon \div 256) % 256, 31)

lcd_IconSet(c, isDisp, icon) ==
    lcd_IconSetRAW(c, isDisp, (icon \div 256) % 256, icon % 256)

\* the order of lcd_IconSetAll(true)
AllIcons == <<ANTENA, PHONE, SOUND, INPUT, UP, DOWN, LOCK, SILENT,
              BAT1, BAT2, BAT3, BATTERY, S76>>

RECURSIVE IconShowFrom(_, _, _)
IconShowFrom(c, k, sum) ==
    IF k > Len(AllIcons) THEN Returning(c, sum)
    ELSE LET c1 == lcd_IconSet(c, TRUE, AllIcons[k])
             sum1 == sum + c1.ret
         IN After(c1, IconShowFrom(c1, k + 1, sum1))

\* for (i = 0; i < 16; i++): the results of the table switches are dropped
RECURSIVE IconClearFrom(_, _, _)
IconClearFrom(c, i, sum) ==
    IF i >= 16 THEN Returning(c, sum)
    ELSE LET c1 == lcd_ExtendMode(c)
             c2 == [c1 EXCEPT !.s.aryIconValue[i] = 0]
             c3 == lcd_send_byte(c2, BitOr(IS1_SETICON, i))
             c4 == i2c_write_DataByte(c3, 0)
             c5 == lcd_NormalMode(c4)
             sum1 == sum + c3.ret + c4.ret
         IN After(c5, IconClearFrom(c5, i + 1, sum1))

\* mutant of lcd_IconSetAll: clearing starts at address 1
lcd_IconSetAll_From1(c, isDisplay) ==
    LET c1 == IF isDisplay THEN IconShowFrom(c, 1, 0) ELSE IconClearFrom(c, 1, 0)
    IN Returning(lcd_ReturnHome(c1), c1.ret)

lcd_IconSetAll(c, isDisplay) ==
    LET c1 == IF isDisplay THEN IconShowFrom(c, 1, 0) ELSE IconClearFrom(c, 0, 0)
    IN Returning(lcd_ReturnHome(c1), c1.ret)

\* for (int8_t i = 0; i < movecnt; i++) with int8_t movecnt: n iterations are
\* the first n \div 2 iterations followed by the remaining ones
RECURSIVE SendRepeated(_, _, _, _)
SendRepeated(c, val, n, sum) ==
    IF n <= 0 THEN Returning(c, sum)
    ELSE IF n = 1
         THEN LET c1 == lcd_send_byte(c, val)
              IN Returning(c1, sum + c1.ret)
         ELSE LET c1 == SendRepeated(c, val, n \div 2, sum)
              IN After(c1, SendRepeated(c1, val, n - (n \div 2), c1.ret))

\* mutant of lcd_DisplayShift: the directions are exchanged
lcd_DisplayShift_Swapped(c, ShiftCnt) ==
    LET movecnt == I8(Abs(ShiftCnt))
        moveOpt == IF ShiftCnt < 0
                   THEN BitOr(DISPLAY_RIGHT, CURSOR_RIGHT)
                   ELSE BitOr(DISPLAY_LEFT, CURSOR_LEFT)
    IN SendRepeated(c, BitOr(IS0_CURDISPSHIFT, moveOpt), movecnt, 0)

lcd_DisplayShift(c, ShiftCnt) ==
    LET movecnt == I8(Abs(ShiftCnt))
        moveOpt == IF ShiftCnt < 0
                   THEN BitOr(DISPLAY_LEFT, CURSOR_LEFT)
                   ELSE BitOr(DISPLAY_RIGHT, CURSOR_RIGHT)
    IN SendRepeated(c, BitOr(IS0_CURDISPSHIFT, moveOpt), movecnt, 0)

lcd_MoveCursor(c, MoveCnt) ==
    LET movecnt == I8(Abs(MoveCnt))
        moveOpt == IF MoveCnt < 0 THEN CURSOR_LEFT ELSE CURSOR_RIGHT
    IN SendRepeated(c, BitOr(IS0_CURDISPSHIFT, moveOpt), movecnt, 0)

\* lcd_ExtendMode() runs before the guards on isInSleep
\* mutant of lcd_Sleep: waking re-applies the chip defaults, not the stored values
lcd_Sleep_WakeDefaults(c, isSleep) ==
    LET c1 == lcd_ExtendMode(c)
    IN IF isSleep
       THEN IF c1.s.isInSleep THEN Returning(c1, 0)
            ELSE LET c2 == lcd_send_byte(c1, IS1_FOLLOWERCTRL)
                     c3 == lcd_send_byte(c2, IS1_POWERICONCTRL)
                     c4 == [c3 EXCEPT !.s.isInSleep = TRUE]
                     c5 == lcd_NormalMode(c4)
                 IN Returning(c5, c1.ret + c2.ret + c3.ret + c5.ret)
       ELSE IF ~c1.s.isInSleep THEN Returning(c1, 0)
            ELSE LET c2 == lcd_FollowerControlSet(c1, TRUE, 4)
                     c3 == lcd_ContrastPowerIconSet(c2, 40, TRUE, TRUE)
                     c4 == [c3 EXCEPT !.s.isInSleep = FALSE]
                     c5 == lcd_NormalMode(c4)
                 IN Returning(c5, c2.ret + c3.ret + c5.ret)

\* mutant of lcd_Sleep: waking re-applies the stored follower flag
lcd_Sleep_WakeStoredFlag(c, isSleep) ==
    LET c1 == lcd_ExtendMode(c)
    IN IF isSleep
       THEN IF c1.s.isInSleep THEN Returning(c1, 0)
            ELSE LET c2 == lcd_send_byte(c1, IS1_FOLLOWERCTRL)
                     c3 == lcd_send_byte(c2, IS1_POWERICONCTRL)
                     c4 == [c3 EXCEPT !.s.isInSleep = TRUE]
                     c5 == lcd_NormalMode(c4)
                 IN Returning(c5, c1.ret + c2.ret + c3.ret + c5.ret)
       ELSE IF ~c1.s.isInSleep THEN Returning(c1, 0)
            ELSE LET c2 == lcd_FollowerControlSet(c1, c1.s.isFollowerOnOff,
                                                  c1.s.followerAmpRatio)
                     c3 == lcd_ContrastPowerIconSet(c2, c2.s.uiContrast,
                                                    c2.s.isPowerIconOn, c2.s.isPowerBoost)
                     c4 == [c3 EXCEPT !.s.isInSleep = FALSE]
                     c5 == lcd_NormalMode(c4)
                 IN Returning(c5, c2.ret + c3.ret + c5.ret)

\* mutant of lcd_Sleep: isInSleep is set only when both power-down commands
\* were accepted
lcd_Sleep_FlagOnSuccess(c, isSleep) ==
    LET c1 == lcd_ExtendMode(c)
    IN IF isSleep
       THEN IF c1.s.isInSleep THEN Returning(c1, 0)
            ELSE LET c2 == lcd_send_byte(c1, IS1_FOLLOWERCTRL)
                     c3 == lcd_send_byte(c2, IS1_POWERICONCTRL)
                     c4 == IF c2.ret = 2 /\ c3.ret = 2
                           THEN [c3 EXCEPT !.s.isInSleep = TRUE]
                           ELSE c3
                     c5 == lcd_NormalMode(c4)
                 IN Returning(c5, c1.ret + c2.ret + c3.ret + c5.ret)
       ELSE IF ~c1.s.isInSleep THEN Returning(c1, 0)
            ELSE LET c2 == lcd_FollowerControlSet(c1, TRUE, c1.s.followerAmpRatio)
                     c3 == lcd_ContrastPowerIconSet(c2, c2.s.uiContrast,
                                                    c2.s.isPowerIconOn, c2.s.isPowerBoost)
                     c4 == [c3 EXCEPT !.s.isInSleep = FALSE]
                     c5 == lcd_NormalMode(c4)
                 IN Returning(c5, c2.ret + c3.ret + c5.ret)

lcd_Sleep(c, isSleep) ==
    LET c1 == lcd_ExtendMode(c)
    IN IF isSleep
       THEN IF c1.s.isInSleep THEN Returning(c1, 0)
            ELSE LET c2 == lcd_send_byte(c1, IS1_FOLLOWERCTRL)
                     c3 == lcd_send_byte(c2, IS1_POWERICONCTRL)
                     c4 == [c3 EXCEPT !.s.isInSleep = TRUE]
                     c5 == lcd_NormalMode(c4)
                 IN Returning(c5, c1.ret + c2.ret + c3.ret + c5.ret)
       ELSE IF ~c1.s.isInSleep THEN Returning(c1, 0)
            ELSE LET c2 == lcd_FollowerControlSet(c1, TRUE, c1.s.followerAmpRatio)
                     c3 == lcd_ContrastPowerIconSet(c2, c2.s.uiContrast,
                                                    c2.s.isPowerIconOn, c2.s.isPowerBoost)
                     c4 == [c3 EXCEPT !.s.isInSleep = FALSE]
                     c5 == lcd_NormalMode(c4)
                 IN Returning(c5, c2.ret + c3.ret + c5.ret)

\* mutant of lcd_init_reset: the sleep flag is not part of the reset
lcd_init_reset_KeepSleep(c) ==
    [c EXCEPT !.s.isFunc_ISMode = FALSE,
               !.s.isFunc_2LINE = TRUE,
               !.s.isFunc_DoubleHeight = FALSE,
               !.s.isFunc_8Bit = TRUE,
               !.s.isDisplayToLeft = FALSE,
               !.s.aryIconValue = [i \in 0..15 |-> 0],
               !.s.isFollowerOnOff = TRUE,
               !.s.followerAmpRatio = 0,
               !.s.isPowerIconOn = FALSE,
               !.s.isPowerBoost = FALSE,
               !.s.uiContrast = 0,
               !.s.isBias1By4 = FALSE,
               !.s.OSCFreq = 4]

\* the reset of the settings storage at the head of lcd_init (lines 978-991);
\* isDisplayOn, isUnderLine, isBlink and isCursorDisplay are not assigned
lcd_init_reset(c) ==
    [c EXCEPT !.s.isFunc_ISMode = FALSE,
               !.s.isFunc_2LINE = TRUE,
               !.s.isFunc_DoubleHeight = FALSE,
               !.s.isFunc_8Bit = TRUE,
               !.s.isDisplayToLeft = FALSE,
               !.s.aryIconValue = [i \in 0..15 |-> 0],
               !.s.isFollowerOnOff = TRUE,
               !.s.followerAmpRatio = 0,
               !.s.isPowerIconOn = FALSE,
               !.s.isPowerBoost = FALSE,
               !.s.uiContrast = 0,
               !.s.isInSleep = FALSE,
               !.s.isBias1By4 = FALSE,
               !.s.OSCFreq = 4]

\* mutant of lcd_init: the follower is set before the contrast
lcd_init_FollowerFirst(c) ==
    LET c0 == lcd_init_reset(c)
        c1 == lcd_send_byte(lcd_send_byte(lcd_send_byte(lcd_send_byte(c0, 3), 3), 3), 2)
        c2 == lcd_FunctionSet(c1, BitOr(EIGHTBITMODE, DOUBLELINE))
        c3 == lcd_FunctionSet(c2, BitOr(EIGHTBITMODE, BitOr(DOUBLELINE, INSTRUCTIONTABLE)))
        c4 == lcd_InternalOSCSet(c3, FALSE, 4)
        c5 == lcd_FollowerControlSet(c4, TRUE, 4)
        c6 == lcd_ContrastPowerIconSet(c5, 40, TRUE, TRUE)
        c7 == lcd_EntryModeSet(c6, FALSE)
        c8 == lcd_CursorMode(c7, TRUE, TRUE, TRUE)
        c9 == lcd_CursorDisplay(c8, TRUE)
        c10 == lcd_ClearDisplay(c9)
        c11 == lcd_IconSetAll(c10, FALSE)
        c12 == lcd_CursorPosition(c11, 0, 0)
    IN Returning(c12, 0)

\* void lcd_init(): every result is dropped
lcd_init(c) ==
    LET c0 == lcd_init_reset(c)
        c1 == lcd_send_byte(lcd_send_byte(lcd_send_byte(lcd_send_byte(c0, 3), 3), 3), 2)
        c2 == lcd_FunctionSet(c1, BitOr(EIGHTBITMODE, DOUBLELINE))
        c3 == lcd_FunctionSet(c2, BitOr(EIGHTBITMODE, BitOr(DOUBLELINE, INSTRUCTIONTABLE)))
        c4 == lcd_InternalOSCSet(c3, FALSE, 4)
        c5 == lcd_ContrastPowerIconSet(c4, 40, TRUE, TRUE)
        c6 == lcd_FollowerControlSet(c5, TRUE, 4)
        c7 == lcd_EntryModeSet(c6, FALSE)
        c8 == lcd_CursorMode(c7, TRUE, TRUE, TRUE)
        c9 == lcd_CursorDisplay(c8, TRUE)
        c10 == lcd_ClearDisplay(c9)
        c11 == lcd_IconSetAll(c10, FALSE)
        c12 == lcd_CursorPosition(c11, 0, 0)
    IN Returning(c12, 0)


(***************************************************************************)
(* The state machine: one action per operation of the driver. R is the set *)
(* of results the transport may give, A the set of argument tuples.        *)
(***************************************************************************)
\* struct LCDSetting lcdSetting; has static storage: zero-initialised
ZeroSetting ==
    [isFunc_ISMode |-> FALSE, isFunc_2LINE |-> FALSE, isFunc_DoubleHeight |-> FALSE,
     isFunc_8Bit |-> FALSE, isDisplayToLeft |-> FALSE,
     aryIconValue |-> [i \in 0..15 |-> 0],
     isFollowerOnOff |-> FALSE, followerAmpRatio |-> 0,
     isPowerIconOn |-> FALSE, isPowerBoost |-> FALSE, uiContrast |-> 0,
     isInSleep |-> FALSE, isDisplayOn |-> FALSE, isUnderLine |-> FALSE,
     isBlink |-> FALSE, OSCFreq |-> 0, isBias1By4 |-> FALSE,
     isCursorDisplay |-> FALSE]

Init ==
    /\ lcdSetting = ZeroSetting
    /\ op = [name |-> "boot", args |-> <<>>]
    /\ tx = <<>>
    /\ ret = 0
    /\ t_data = FreshBuffer
    /\ chipIS = <<>>

\* values an uninitialised int (or, modulo 256, byte) may hold
UninitInt == {-1, 0, 64}

\* The results the transport gives to the (up to n) transmissions of one call:
\* any results for the first MaxRes, or a single failure later on.
Results(R, n) ==
    LET m == Min(n, MaxRes)
    IN [1..m -> R] \cup
       {[i \in 1..n |-> IF i = p THEN k ELSE "ok"] : p \in (m + 1)..n, k \in R \ {"ok"}}

Ctx(res, junk) ==
    [s |-> lcdSetting, tx |-> <<>>, ret |-> 0, res |-> res, junk |-> junk,
     t_data |-> FreshBuffer, ub |-> "asWritten", chip |-> chipIS]

Do(name, args, c) ==
    /\ lcdSetting' = c.s
    /\ tx' = c.tx
    /\ ret' = c.ret
    /\ t_data' = c.t_data
    /\ chipIS' = c.chip
    /\ op' = [name |-> name, args |-> args]

\* The driver is single-threaded: a call starts when the call before it has
\* returned, and lcd_init() is called before any other operation
\* (LCDDriver.cpp:46).
Initialised == op.name = "idle"

\* The caller takes the return value; the next call starts a new log. A call
\* that has not come to an end does not return.
Return ==
    /\ op.name \notin {"boot", "idle"}
    /\ t_data.done /\ ~t_data.lost
    /\ op' = [name |-> "idle", args |-> <<>>]
    /\ tx' = <<>>
    /\ ret' = 0
    /\ t_data' = FreshBuffer
    /\ UNCHANGED <<lcdSetting, chipIS>>

\* lcd_init() with the results of its first n transmissions left open; the
\* sums that start from an uninitialised variable are dropped inside lcd_init
InitializeWith(R, n) ==
    /\ op.name \in {"boot", "idle"}
    /\ \E res \in Results(R, n) :
        Do("Initialize", <<>>, lcd_init(Ctx(res, 0)))

Initialize(R) == InitializeWith(R, 1)

ClearDisplay(R) ==
    /\ Initialised
    /\ \E res \in Results(R, 1) :
        Do("ClearDisplay", <<>>, lcd_ClearDisplay(Ctx(res, 0)))

ReturnHome(R) ==
    /\ Initialised
    /\ \E res \in Results(R, 2) :
        Do("ReturnHome", <<>>, lcd_ReturnHome(Ctx(res, 0)))

SetEntryMode(R, A) ==
    /\ Initialised
    /\ \E a \in A, res \in Results(R, 1) :
        Do("SetEntryMode", a, lcd_EntryModeSet(Ctx(res, 0), a[1]))

SetCursorPosition(R, A) ==
    /\ Initialised
    /\ \E a \in A, res \in Results(R, 1) :
        Do("SetCursorPosition", a, lcd_CursorPosition(Ctx(res, 0), a[1], a[2]))

FunctionSet(R, A) ==
    /\ Initialised
    /\ \E a \in A, res \in Results(R, 1) :
        Do("FunctionSet", a, lcd_FunctionSetFlags(Ctx(res, 0), a[1], a[2], a[3]))

\* lcd_FunctionSet(uint8_t mode), the overload taking the option bits
FunctionSetMask(R, A) ==
    /\ Initialised
    /\ \E a \in A, res \in Results(R, 1) :
        Do("FunctionSetMask", a, lcd_FunctionSet(Ctx(res, 0), a[1]))

TwoLineMode(R, A) ==
    /\ Initialised
    /\ \E a \in A, res \in Results(R, 1) :
        Do("TwoLineMode", a, lcd_2LineMode(Ctx(res, 0), a[1]))

NormalMode(R) ==
    /\ Initialised
    /\ \E res \in Results(R, 1) :
        Do("NormalMode", <<>>, lcd_NormalMode(Ctx(res, 0)))

ExtendedMode(R) ==
    /\ Initialised
    /\ \E res \in Results(R, 1) :
        Do("ExtendedMode", <<>>, lcd_ExtendMode(Ctx(res, 0)))

InternalOscillatorSet(R, A) ==
    /\ Initialised
    /\ \E a \in A, res \in Results(R, 3), junk \in UninitInt :
        Do("InternalOscillatorSet", a, lcd_InternalOSCSet(Ctx(res, junk), a[1], a[2]))

FollowerControlSet(R, A) ==
    /\ Initialised
    /\ \E a \in A, res \in Results(R, 3), junk \in UninitInt :
        Do("FollowerControlSet", a, lcd_FollowerControlSet(Ctx(res, junk), a[1], a[2]))

ContrastAndPowerIconSet(R, A) ==
    /\ Initialised
    /\ \E a \in A, res \in Results(R, 4) :
        Do("ContrastAndPowerIconSet", a,
           lcd_ContrastPowerIconSet(Ctx(res, 0), a[1], a[2], a[3]))

ContrastSet(R, A) ==
    /\ Initialised
    /\ \E a \in A, res \in Results(R, 4) :
        Do("ContrastSet", a, lcd_contrastSet(Ctx(res, 0), a[1]))

CursorModeSet(R, A) ==
    /\ Initialised
    /\ \E a \in A, res \in Results(R, 1) :
        Do("CursorModeSet", a, lcd_CursorMode(Ctx(res, 0), a[1], a[2], a[3]))

CursorDisplay(R, A) ==
    /\ Initialised
    /\ \E a \in A, res \in Results(R, 1) :
        Do("CursorDisplay", a, lcd_CursorDisplay(Ctx(res, 0), a[1]))

WriteText(R, A) ==
    /\ Initialised
    /\ \E a \in A, res \in Results(R, 1), junk \in UninitInt, ub \in Overrun :
        Do("WriteText", a, lcd_string([Ctx(res, junk) EXCEPT !.ub = ub], a[1]))

\* lcd_printf with a format and arguments that produce the output a[1]
FormattedWrite(R, A) ==
    /\ Initialised
    /\ \E a \in A, res \in Results(R, 1), junk \in UninitInt, ub \in Overrun :
        Do("FormattedWrite", a, lcd_printf([Ctx(res, junk) EXCEPT !.ub = ub], a[1]))

IconSet(R, A) ==
    /\ Initialised
    /\ \E a \in A, res \in Results(R, 6) :
        Do("IconSet", a, lcd_IconSet(Ctx(res, 0), a[1], a[2]))

\* lcd_IconSetRAW called directly
IconSetRaw(R, A) ==
    /\ Initialised
    /\ \E a \in A, res \in Results(R, 6) :
        Do("IconSetRaw", a, lcd_IconSetRAW(Ctx(res, 0), a[1], a[2], a[3]))

IconSetAll(R, A) ==
    /\ Initialised
    /\ \E a \in A, res \in Results(R, 1) :
        Do("IconSetAll", a, lcd_IconSetAll(Ctx(res, 0), a[1]))

DisplayShift(R, A) ==
    /\ Initialised
    /\ \E a \in A, res \in Results(R, 2) :
        Do("DisplayShift", a, lcd_DisplayShift(Ctx(res, 0), a[1]))

MoveCursor(R, A) ==
    /\ Initialised
    /\ \E a \in A, res \in Results(R, 2) :
        Do("MoveCursor", a, lcd_MoveCursor(Ctx(res, 0), a[1]))

Sleep(R, A) ==
    /\ Initialised
    /\ \E a \in A, res \in Results(R, 7), junk \in UninitInt :
        Do("Sleep", a, lcd_Sleep(Ctx(res, junk), a[1]))

(***************************************************************************)
(* Argument sets.                                                          *)
(***************************************************************************)
Bool1 == {<<b>> : b \in BOOLEAN}
PositionArgs == {<<0, 5>>, <<1, 5>>}
FunctionSetArgs == {TRUE} \X {TRUE} \X BOOLEAN
OscArgs == {<<FALSE, 4>>}
FollowerArgs == {<<TRUE, 4>>}
ContrastArgs == {<<21, FALSE, TRUE>>}
ContrastSetArgs == {<<21>>}
CursorModeArgs == {<<TRUE, FALSE, FALSE>>}
TextArgs == {<< <<>> >>, << <<72, 105>> >>}
IconArgs == BOOLEAN \X {BAT1}
ShiftArgs == {<<-2>>, <<0>>, <<1>>}

(***************************************************************************)
(* Spec: every operation of the driver, every transport result.            *)
(***************************************************************************)
Next ==
    \/ Return
    \/ Initialize(Outcome)
    \/ ClearDisplay(Outcome)
    \/ ReturnHome(Outcome)
    \/ SetEntryMode(Outcome, Bool1)
    \/ SetCursorPosition(Outcome, PositionArgs)
    \/ FunctionSet(Outcome, FunctionSetArgs)
    \/ TwoLineMode(Outcome, {<<TRUE>>})
    \/ NormalMode(Outcome)
    \/ ExtendedMode(Outcome)
    \/ InternalOscillatorSet(Outcome, OscArgs)
    \/ FollowerControlSet(Outcome, FollowerArgs)
    \/ ContrastAndPowerIconSet(Outcome, ContrastArgs)
    \/ ContrastSet(Outcome, ContrastSetArgs)
    \/ CursorModeSet(Outcome, CursorModeArgs)
    \/ CursorDisplay(Outcome, Bool1)
    \/ WriteText(Outcome, TextArgs)
    \/ IconSet(Outcome, IconArgs)
    \/ IconSetAll(Outcome, Bool1)
    \/ DisplayShift(Outcome, ShiftArgs)
    \/ MoveCursor(Outcome, ShiftArgs)
    \/ Sleep(Outcome, Bool1)

Spec == Init /\ [][Next]_vars

(***************************************************************************)
(* SpecReliable: the public operations other than the explicit table       *)
(* switches (lcd_FunctionSet, lcd_2LineMode, lcd_NormalMode,               *)
(* lcd_ExtendMode), on a transport that never fails.                       *)
(***************************************************************************)
Reliable == {"ok"}

NextReliable ==
    \/ Return
    \/ Initialize(Reliable)
    \/ ClearDisplay(Reliable)
    \/ ReturnHome(Reliable)
    \/ SetEntryMode(Reliable, Bool1)
    \/ SetCursorPosition(Reliable, PositionArgs)
    \/ InternalOscillatorSet(Reliable, OscArgs)
    \/ FollowerControlSet(Reliable, FollowerArgs)
    \/ ContrastAndPowerIconSet(Reliable, ContrastArgs)
    \/ ContrastSet(Reliable, ContrastSetArgs)
    \/ CursorModeSet(Reliable, CursorModeArgs)
    \/ CursorDisplay(Reliable, Bool1)
    \/ WriteText(Reliable, TextArgs)
    \/ IconSet(Reliable, IconArgs)
    \/ IconSetAll(Reliable, Bool1)
    \/ DisplayShift(Reliable, ShiftArgs)
    \/ MoveCursor(Reliable, ShiftArgs)
    \/ Sleep(Reliable, Bool1)

SpecReliable == Init /\ [][NextReliable]_vars

(***************************************************************************)
(* SpecSleep: sleep and wake over the follower and contrast settings.      *)
(***************************************************************************)
SleepFollowerArgs == BOOLEAN \X {0, 7}
SleepContrastArgs == {<<0, FALSE, FALSE>>, <<37, FALSE, TRUE>>, <<63, TRUE, TRUE>>}
SleepContrastSetArgs == {<<16>>}

NextSleep ==
    \/ Return
    \/ Initialize(Outcome)
    \/ NormalMode(Outcome)
    \/ ExtendedMode(Outcome)
    \/ FollowerControlSet(Outcome, SleepFollowerArgs)
    \/ ContrastAndPowerIconSet(Outcome, SleepContrastArgs)
    \/ ContrastSet(Outcome, SleepContrastSetArgs)
    \/ Sleep(Outcome, Bool1)

SpecSleep == Init /\ [][NextSleep]_vars

(***************************************************************************)
(* SpecContrast: one call of lcd_ContrastPowerIconSet, with every contrast *)
(* of the documented range 0..63, from either instruction table.           *)
(***************************************************************************)
AllContrastArgs == (0..63) \X BOOLEAN \X BOOLEAN

ReturnFromSetup ==
    /\ op.name \in {"Initialize", "ExtendedMode", "NormalMode"}
    /\ Return

NextContrast ==
    \/ ReturnFromSetup
    \/ Initialize(Outcome)
    \/ NormalMode(Outcome)
    \/ ExtendedMode(Outcome)
    \/ ContrastAndPowerIconSet(Outcome, AllContrastArgs)

SpecContrast == Init /\ [][NextContrast]_vars

(***************************************************************************)
(* Reading the log of an operation.                                        *)
(***************************************************************************)
Called == op.name \notin {"boot", "idle"}
IsCmd(e) == Len(e.b) = 2 /\ e.b[1] = LCD_COMMAND
IsData(e) == Len(e.b) >= 1 /\ e.b[1] = LCD_CHARACTER
Payload(e) == e.b[2]
Sent(e) == e.r = Len(e.b)
AllSent(log) == \A i \in DOMAIN log : Sent(log[i])
\* FUNCTIONSET | mode: 0x20..0x3F
IsFunctionSet(e) == IsCmd(e) /\ Payload(e) \in 32..63
\* IS1_FOLLOWERCONTRAST | low4: 0x70..0x7F
IsContrastLow(e) == IsCmd(e) /\ Payload(e) \in 112..127
\* IS1_POWERICONCTRL | bits: 0x50..0x5F
IsPowerIcon(e) == IsCmd(e) /\ Payload(e) \in 80..95
\* IS1_FOLLOWERCTRL | bits: 0x60..0x6F
IsFollower(e) == IsCmd(e) /\ Payload(e) \in 96..111
\* IS1_SETICON | address: 0x40..0x4F
IsSetIcon(e) == IsCmd(e) /\ Payload(e) \in 64..79
\* IS1_INTOSC | bits: 0x10..0x1F, the opcode lcd_DisplayShift and
\* lcd_MoveCursor use for IS0_CURDISPSHIFT
IsIntOsc(e) == IsCmd(e) /\ Payload(e) \in 16..31 /\ op.name \notin {"DisplayShift", "MoveCursor"}
\* the data byte of an icon follows its IS1_SETICON command
IsIconData(e) == IsData(e) /\ op.name # "WriteText"
IsExtendedCommand(e) ==
    \/ IsIntOsc(e) \/ IsSetIcon(e) \/ IsIconData(e)
    \/ IsPowerIcon(e) \/ IsFollower(e) \/ IsContrastLow(e)

RECURSIVE BytesSent(_)
BytesSent(log) == IF log = <<>> THEN 0 ELSE Len(Head(log).b) + BytesSent(Tail(log))

(***************************************************************************)
(* Claims.                                                                 *)
(***************************************************************************)
\* C1 (as claimed; refuted under SpecReliable): with every transmit succeeding,
\* every operation other than the explicit table switches returns with the
\* shadow instruction table equal to STANDARD.
C1_StandardAfterOperation == Called => ~lcdSetting.isFunc_ISMode

\* C2: an extended-table command byte (IS1_INTOSC, IS1_SETICON and its icon
\* data byte, IS1_POWERICONCTRL, IS1_FOLLOWERCTRL, IS1_FOLLOWERCONTRAST) is
\* handed to the transport only while the shadow instruction table is EXTENDED,
\* whatever the operations called before and whatever the transport answered.
C2_ExtendedOnlyInExtendedTable ==
    \A i \in DOMAIN tx : IsExtendedCommand(tx[i]) => tx[i].is

\* C2 witness: an icon command goes out right after the FUNCTIONSET that
\* selects the extended table was refused by the transport.
C2_Witness ==
    /\ op.name = "IconSet"
    /\ Len(tx) >= 3
    /\ IsFunctionSet(tx[1]) /\ tx[1].r = -1
    /\ IsSetIcon(tx[2]) /\ tx[2].is
    /\ IsIconData(tx[3]) /\ tx[3].is

\* C3 (as claimed; refuted): Sleep(enter) called when the sleeping flag already
\* equals enter returns 0, transmits nothing and leaves every shadow field
\* unchanged.
C3_SleepAgainIsNoOp ==
    [][(op'.name = "Sleep" /\ op'.args[1] = lcdSetting.isInSleep)
         => (ret' = 0 /\ tx' = <<>> /\ lcdSetting' = lcdSetting)]_vars


\* the call being made is Sleep(FALSE) on a display that is asleep
Waking == op'.name = "Sleep" /\ ~op'.args[1] /\ lcdSetting.isInSleep
FollowerSent(log) == SelectSeq(log, IsFollower)
ContrastLowSent(log) == SelectSeq(log, IsContrastLow)
PowerIconSent(log) == SelectSeq(log, IsPowerIcon)

\* C4: entering sleep and waking both leave the shadow followerAmpRatio and
\* uiContrast as they were (values of the documented ranges 0..7 and 0..63),
\* and waking transmits exactly one FOLLOWERCTRL command carrying the stored
\* gain, one FOLLOWERCONTRAST command carrying the stored low nibble and, when
\* that one was accepted, one POWERICONCTRL command carrying the stored upper
\* two bits.
C4_SleepWakeKeepsGainAndContrast ==
    [][(op'.name = "Sleep") =>
         /\ lcdSetting'.followerAmpRatio = lcdSetting.followerAmpRatio
         /\ lcdSetting'.uiContrast = lcdSetting.uiContrast
         /\ Waking =>
              /\ Len(FollowerSent(tx')) = 1
              /\ Payload(FollowerSent(tx')[1]) % 8 = lcdSetting.followerAmpRatio
              /\ Len(ContrastLowSent(tx')) = 1
              /\ Payload(ContrastLowSent(tx')[1]) % 16 = lcdSetting.uiContrast % 16
              /\ ContrastLowSent(tx')[1].r = 2 =>
                   /\ Len(PowerIconSent(tx')) = 1
                   /\ Payload(PowerIconSent(tx')[1]) % 4 = lcdSetting.uiContrast \div 16]_vars

\* C4 witness: woken up, with gain 7 and contrast 37 put back on the wire
C4_Witness ==
    /\ op.name = "Sleep" /\ ~op.args[1] /\ ~lcdSetting.isInSleep
    /\ lcdSetting.followerAmpRatio = 7 /\ lcdSetting.uiContrast = 37
    /\ AllSent(tx)
    /\ Len(FollowerSent(tx)) = 1 /\ Payload(FollowerSent(tx)[1]) % 8 = 7
    /\ Len(ContrastLowSent(tx)) = 1 /\ Payload(ContrastLowSent(tx)[1]) = 112 + 5
    /\ Len(PowerIconSent(tx)) = 1 /\ Payload(PowerIconSent(tx)[1]) % 4 = 2

\* C5 (as claimed; refuted): on wake the enable bit of the FOLLOWERCTRL command
\* equals the isFollowerOnOff stored before, and isFollowerOnOff is unchanged.
C5_WakeKeepsFollowerFlag ==
    [][Waking =>
         /\ lcdSetting'.isFollowerOnOff = lcdSetting.isFollowerOnOff
         /\ \A i \in DOMAIN tx' : IsFollower(tx'[i]) =>
              ((Payload(tx'[i]) \div 8) % 2 = 1) = lcdSetting.isFollowerOnOff]_vars

\* C5 (amended): on wake the FOLLOWERCTRL command carries the stored gain with
\* its enable bit set, whatever isFollowerOnOff was before, and isFollowerOnOff
\* is TRUE afterwards.
C5_WakeTurnsFollowerOn ==
    [][Waking =>
         /\ lcdSetting'.isFollowerOnOff
         /\ Len(FollowerSent(tx')) = 1
         /\ Payload(FollowerSent(tx')[1]) = 96 + 8 + lcdSetting.followerAmpRatio]_vars

\* C5 witness: woken up after the follower had been stored as off; the only
\* FOLLOWERCTRL command of a call that ends awake is the one wake sends.
C5_Witness ==
    /\ op.name = "Sleep" /\ ~op.args[1] /\ ~lcdSetting.isInSleep
    /\ lcdSetting.isFollowerOnOff
    /\ Len(FollowerSent(tx)) = 1
    /\ Payload(FollowerSent(tx)[1]) = 96 + 8 + 7

\* the non-FUNCTIONSET transmissions of the call
ContrastCmds == SelectSeq(tx, LAMBDA e : ~IsFunctionSet(e))
IconBit == IF op.args[2] THEN 8 ELSE 0
BoostBit == IF op.args[3] THEN 4 ELSE 0

\* C6: for every contrast in 0..63 and every iconOn/boost,
\* ContrastAndPowerIconSet transmits [0x00, 0x70 + contrast mod 16] and then,
\* that one accepted, [0x00, 0x50 + iconBit + boostBit + contrast div 16], so
\* that 16 * high2 + low4 is the requested contrast.
C6_ContrastEncoding ==
    (op.name = "ContrastAndPowerIconSet") =>
        /\ Len(ContrastCmds) >= 1
        /\ ContrastCmds[1].b = <<0, 112 + (op.args[1] % 16)>>
        /\ ContrastCmds[1].r = 2 =>
             /\ Len(ContrastCmds) = 2
             /\ ContrastCmds[2].b = <<0, 80 + IconBit + BoostBit + (op.args[1] \div 16)>>
             /\ 16 * (ContrastCmds[2].b[2] % 4) + (ContrastCmds[1].b[2] % 16) = op.args[1]

\* C6 witness: contrast 63 with the icon on and the boost off, both accepted
C6_Witness ==
    /\ op.name = "ContrastAndPowerIconSet" /\ op.args = <<63, TRUE, FALSE>>
    /\ AllSent(tx)
    /\ Len(ContrastCmds) = 2
    /\ ContrastCmds[1].b = <<0, 127>> /\ ContrastCmds[2].b = <<0, 91>>

\* C7: in ContrastAndPowerIconSet a contrast/power send that does not report
\* 2 bytes is the last transmission of the call and its result is what the
\* call returns; a failed low-nibble send is never followed by POWERICONCTRL.
C7_ContrastAbortsOnFailedSend ==
    (op.name = "ContrastAndPowerIconSet") =>
        \A i \in DOMAIN tx :
            ((IsContrastLow(tx[i]) \/ IsPowerIcon(tx[i])) /\ tx[i].r # 2) =>
                (i = Len(tx) /\ ret = tx[i].r)

\* C7 witness: the low-nibble send reported 1 byte and the call returned 1
C7_Witness ==
    /\ op.name = "ContrastAndPowerIconSet"
    /\ tx # <<>>
    /\ IsContrastLow(tx[Len(tx)]) /\ tx[Len(tx)].r = 1
    /\ ret = 1

ContrastSendFailed(log) ==
    \E i \in DOMAIN log : (IsContrastLow(log[i]) \/ IsPowerIcon(log[i])) /\ log[i].r # 2

\* C8 (as claimed; refuted): if either send of ContrastAndPowerIconSet fails,
\* uiContrast, isPowerIconOn and isPowerBoost keep the values they had before.
C8_ContrastKeptOnFailure ==
    [][(op'.name = "ContrastAndPowerIconSet" /\ ContrastSendFailed(tx')) =>
         /\ lcdSetting'.uiContrast = lcdSetting.uiContrast
         /\ lcdSetting'.isPowerIconOn = lcdSetting.isPowerIconOn
         /\ lcdSetting'.isPowerBoost = lcdSetting.isPowerBoost]_vars

\* C8 (amended): ContrastAndPowerIconSet stores the requested contrast, icon
\* and boost values before it sends, so the three shadow fields hold the
\* requested values after the call whether its sends succeeded or failed.
C8_ContrastStoredBeforeSend ==
    (op.name = "ContrastAndPowerIconSet") =>
        /\ lcdSetting.uiContrast = op.args[1]
        /\ lcdSetting.isPowerIconOn = op.args[2]
        /\ lcdSetting.isPowerBoost = op.args[3]

\* C8 witness: the low-nibble send failed and the shadow holds the new values
C8_Witness ==
    /\ op.name = "ContrastAndPowerIconSet" /\ op.args = <<5, FALSE, FALSE>>
    /\ ContrastSendFailed(tx)
    /\ lcdSetting.uiContrast = 5
    /\ ~lcdSetting.isPowerIconOn /\ ~lcdSetting.isPowerBoost

\* lcd_init returns nothing
HasResult == Called /\ op.name # "Initialize"
\* the operations whose result starts from an initialised accumulator
SumsFromZero == op.name \notin {"InternalOscillatorSet", "FollowerControlSet", "Sleep"}

\* C9 (as claimed; refuted): an operation during which a transport send
\* failed (returned a negative value) returns a negative value. Stated here
\* for the operations whose result does not start from an uninitialised
\* accumulator, where it already fails.
C9_FailureReturnsNegative ==
    (HasResult /\ SumsFromZero /\ \E i \in DOMAIN tx : tx[i].r < 0) => ret < 0

\* C10 (as claimed; refuted): when every send succeeds the operation returns
\* the total number of bytes it transmitted.
C10_ReturnsBytesTransmitted ==
    (HasResult /\ AllSent(tx)) => ret = BytesSent(tx)

(***************************************************************************)
(* SpecCursor: the cursor mode and cursor display operations, with every   *)
(* combination of displayOn/underline/blink.                               *)
(***************************************************************************)
AllCursorModeArgs == BOOLEAN \X BOOLEAN \X BOOLEAN

NextCursor ==
    \/ Return
    \/ Initialize(Outcome)
    \/ ClearDisplay(Outcome)
    \/ SetEntryMode(Outcome, Bool1)
    \/ CursorModeSet(Outcome, AllCursorModeArgs)
    \/ CursorDisplay(Outcome, Bool1)

SpecCursor == Init /\ [][NextCursor]_vars

\* the call went through lcd_CursorMode and its DISPLAYONOFF send
ThroughCursorMode ==
    \/ op.name = "CursorModeSet"
    \/ op.name = "CursorDisplay" /\ op.args[1] /\ tx # <<>>

\* C11 (as claimed; refuted): CursorModeSet, and CursorDisplay(true) through
\* it, returns 2 when its DISPLAYONOFF transmission succeeds and a negative
\* value when the transport reports an error.
C11_CursorModeResult ==
    ThroughCursorMode =>
        /\ Sent(tx[1]) => ret = 2
        /\ tx[1].r < 0 => ret < 0

\* C12: CursorModeSet(on, false, false) leaves underline, blink and
\* isCursorDisplay false, for either value of on and whatever the transport
\* answers; and a CursorDisplay call made in such a state returns 0, transmits
\* nothing and leaves the whole shadow, isCursorDisplay included, as it was.
C12_CursorDisplayWithoutCursor ==
    [][/\ (op'.name = "CursorModeSet" /\ ~op'.args[2] /\ ~op'.args[3]) =>
            /\ lcdSetting'.isDisplayOn = op'.args[1]
            /\ ~lcdSetting'.isUnderLine /\ ~lcdSetting'.isBlink
            /\ ~lcdSetting'.isCursorDisplay
       /\ (op'.name = "CursorDisplay" /\ ~lcdSetting.isUnderLine /\ ~lcdSetting.isBlink
              /\ ~lcdSetting.isCursorDisplay) =>
            /\ ret' = 0 /\ tx' = <<>>
            /\ lcdSetting' = lcdSetting]_vars

\* C12 witness: CursorDisplay(true) has returned 0 without a transmission, the
\* display off and no underline or blink (the state CursorModeSet(false,
\* false, false) leaves; lcd_init leaves all three on)
C12_Witness ==
    /\ op.name = "CursorDisplay" /\ op.args = <<TRUE>>
    /\ ret = 0 /\ tx = <<>>
    /\ ~lcdSetting.isDisplayOn
    /\ ~lcdSetting.isUnderLine /\ ~lcdSetting.isBlink /\ ~lcdSetting.isCursorDisplay

\* C13: in every state from Initialize on, isCursorDisplay is true only if
\* isUnderLine or isBlink is true.
C13_CursorShownNeedsCursor ==
    (op.name # "boot" /\ lcdSetting.isCursorDisplay) =>
        (lcdSetting.isUnderLine \/ lcdSetting.isBlink)

\* C13 witness: CursorDisplay(true) was asked for with underline and blink
\* both off, and the cursor is still not shown
C13_Witness ==
    /\ op.name = "CursorDisplay" /\ op.args = <<TRUE>>
    /\ lcdSetting.isDisplayOn
    /\ ~lcdSetting.isUnderLine /\ ~lcdSetting.isBlink /\ ~lcdSetting.isCursorDisplay

(***************************************************************************)
(* SpecMove: cursor positioning and shifting over their whole argument     *)
(* ranges (line 0..1, column 0..15, int8_t counts).                        *)
(***************************************************************************)
AllPositionArgs == (0..(MAX_LINES - 1)) \X (0..(MAX_CHARS - 1))
Int8Args == {<<n>> : n \in -128..127}

NextMove ==
    \/ Return
    \/ Initialize(Outcome)
    \/ SetCursorPosition(Outcome, AllPositionArgs)
    \/ DisplayShift(Outcome, Int8Args)
    \/ MoveCursor(Outcome, Int8Args)

SpecMove == Init /\ [][NextMove]_vars

\* C14: for line 0..1 and column 0..15, SetCursorPosition(line, col) transmits
\* exactly one command, with payload 0x80 + col on line 0 and 0x80 + 0x40 + col
\* on line 1.
C14_CursorPositionEncoding ==
    (op.name = "SetCursorPosition") =>
        /\ Len(tx) = 1
        /\ tx[1].b = <<0, 128 + (64 * op.args[1]) + op.args[2]>>

\* C14 witness: SetCursorPosition(1, 5) has sent 0xC5
C14_Witness ==
    /\ op.name = "SetCursorPosition" /\ op.args = <<1, 5>>
    /\ tx = <<[b |-> <<0, 197>>, r |-> 2, is |-> FALSE]>>

\* C15: for n in 1..127, DisplayShift(-n) issues exactly n transmissions, each
\* the command 0x18 (CURSORSHIFT, display left), DisplayShift(n) issues exactly
\* n transmissions, each the command 0x1C (CURSORSHIFT, display right), and
\* DisplayShift(0) issues none.
C15_DisplayShiftCount ==
    (op.name = "DisplayShift" /\ op.args[1] \in -127..127) =>
        /\ Len(tx) = Abs(op.args[1])
        /\ \A i \in DOMAIN tx :
               tx[i].b = <<0, IF op.args[1] < 0 THEN 24 ELSE 28>>

\* C15 witness: DisplayShift(-3) has sent 0x18 three times
C15_Witness ==
    /\ op.name = "DisplayShift" /\ op.args = <<-3>>
    /\ Len(tx) = 3
    /\ \A i \in 1..3 : tx[i].b = <<0, 24>> /\ Sent(tx[i])

(***************************************************************************)
(* SpecTable: the FUNCTIONSET operations, with every combination of data   *)
(* width, line mode and instruction table.                                 *)
(***************************************************************************)
AllFunctionSetArgs == BOOLEAN \X BOOLEAN \X BOOLEAN
\* every combination of EIGHTBITMODE, DOUBLELINE, DOUBLEHEIGHT, INSTRUCTIONTABLE
FunctionSetMaskArgs ==
    {<<BitOr(IF w THEN EIGHTBITMODE ELSE 0,
             BitOr(IF l THEN DOUBLELINE ELSE 0,
                   BitOr(IF h THEN DOUBLEHEIGHT ELSE 0,
                         IF i THEN INSTRUCTIONTABLE ELSE 0)))>> :
        w \in BOOLEAN, l \in BOOLEAN, h \in BOOLEAN, i \in BOOLEAN}

NextTable ==
    \/ Return
    \/ Initialize(Outcome)
    \/ FunctionSet(Outcome, AllFunctionSetArgs)
    \/ FunctionSetMask(Outcome, FunctionSetMaskArgs)
    \/ TwoLineMode(Outcome, Bool1)
    \/ NormalMode(Outcome)
    \/ ExtendedMode(Outcome)

SpecTable == Init /\ [][NextTable]_vars

\* the call transmitted exactly one FUNCTIONSET, selecting table `is`
OneFunctionSet(log, is) ==
    /\ Len(log) = 1
    /\ IsFunctionSet(log[1])
    /\ (Payload(log[1]) % 2 = 1) = is

\* C16: ExtendedMode (NormalMode) called while the shadow table already is
\* EXTENDED (STANDARD) returns 0, transmits nothing and changes nothing;
\* called from the other table it transmits exactly one FUNCTIONSET and ends
\* with the shadow at its target table whatever the transport answers, so the
\* same call made again is the one that transmits nothing.
C16_TableSwitchIdempotent ==
    [][/\ (op'.name = "ExtendedMode") =>
            /\ lcdSetting'.isFunc_ISMode
            /\ IF lcdSetting.isFunc_ISMode
               THEN ret' = 0 /\ tx' = <<>> /\ lcdSetting' = lcdSetting
               ELSE OneFunctionSet(tx', TRUE)
       /\ (op'.name = "NormalMode") =>
            /\ ~lcdSetting'.isFunc_ISMode
            /\ IF ~lcdSetting.isFunc_ISMode
               THEN ret' = 0 /\ tx' = <<>> /\ lcdSetting' = lcdSetting
               ELSE OneFunctionSet(tx', FALSE)]_vars

\* C16 witness: ExtendedMode called with the shadow table EXTENDED, in
\* one-line mode, has returned 0 without a transmission
C16_Witness ==
    /\ op.name = "ExtendedMode"
    /\ lcdSetting.isFunc_ISMode /\ ~lcdSetting.isFunc_2LINE
    /\ tx = <<>> /\ ret = 0

(***************************************************************************)
(* SpecText: text writes of the byte sequences of up to MaxText bytes over *)
(* a null and two characters. The sequence is what the caller's buffer     *)
(* holds in front of its final terminator.                                 *)
(***************************************************************************)
MaxText == 3
TextBytes == {0, 72, 105}
TextBuffers == UNION {[1..n -> TextBytes] : n \in 0..MaxText}
AllTextArgs == {<<b>> : b \in TextBuffers}

NextText ==
    \/ Return
    \/ Initialize(Outcome)
    \/ SetCursorPosition(Outcome, PositionArgs)
    \/ WriteText(Outcome, AllTextArgs)

SpecText == Init /\ [][NextText]_vars

\* the bytes that follow the control byte of the text transmission
TextPayload == Tail(tx[1].b)
HasEmbeddedNull == \E i \in DOMAIN op.args[1] : op.args[1][i] = 0

C18_TransmissionFraming ==
    /\ \A i \in DOMAIN tx :
           /\ tx[i].b[1] \in {LCD_COMMAND, LCD_CHARACTER}
           /\ tx[i].b[1] = LCD_COMMAND => Len(tx[i].b) = 2
    /\ (op.name = "WriteText") => (Len(tx) = 1 /\ tx[1].b[1] = LCD_CHARACTER)

(***************************************************************************)
(* SpecInit: lcd_init called again from the states the other operations    *)
(* leave, with a failure possible at each of its first 12 transmissions    *)
(* (the handshake, the table switches, the oscillator and the contrast).   *)
(***************************************************************************)
NextInit ==
    \/ Return
    \/ InitializeWith(Outcome, 12)
    \/ SetEntryMode(Outcome, Bool1)
    \/ ExtendedMode(Outcome)
    \/ ContrastSet(Outcome, ContrastSetArgs)
    \/ CursorModeSet(Outcome, CursorModeArgs)
    \/ IconSet(Outcome, IconArgs)
    \/ Sleep(Outcome, Bool1)

SpecInit == Init /\ [][NextInit]_vars

Bytes(log) == [i \in DOMAIN log |-> log[i].b]
\* what lcd_init transmits after its two FUNCTIONSET commands, the later table
\* switches left out
InitSteps == SelectSeq(SubSeq(tx, 7, Len(tx)), LAMBDA e : ~IsFunctionSet(e))
\* IS1_SETICON | address and a zero data byte, for the addresses 0..15
InitIconSteps ==
    [k \in 1..32 |-> IF k % 2 = 1 THEN <<0, 64 + ((k - 1) \div 2)>> ELSE <<64, 0>>]

\* C19: Initialize transmits, in this order: the handshake 0x03 0x03 0x03
\* 0x02, FUNCTIONSET 0x38 and FUNCTIONSET 0x39 (extended table), the oscillator
\* command 0x14, the contrast commands 0x78 and (once 0x78 was accepted) 0x5E,
\* the follower command 0x6C, ENTRYMODESET 0x04, DISPLAYONOFF 0x0F twice
\* (CursorModeSet, CursorDisplay), CLEARDISPLAY 0x01, SETICON and a zero byte
\* for the addresses 0..15 followed by RETURNHOME, and last SETDDRAMADDR 0x80;
\* between them only FUNCTIONSET table switches are transmitted.
C19_InitializeOrder ==
    (op.name = "Initialize") =>
        /\ Len(tx) >= 6
        /\ Bytes(SubSeq(tx, 1, 6)) =
               << <<0, 3>>, <<0, 3>>, <<0, 3>>, <<0, 2>>, <<0, 56>>, <<0, 57>> >>
        /\ Len(InitSteps) >= 2
        /\ Bytes(InitSteps) =
               << <<0, 20>>, <<0, 120>> >>
               \o (IF InitSteps[2].r = 2 THEN << <<0, 94>> >> ELSE << >>)
               \o << <<0, 108>>, <<0, 4>>, <<0, 15>>, <<0, 15>>, <<0, 1>> >>
               \o InitIconSteps
               \o << <<0, 2>>, <<0, 128>> >>

\* C19 witness: Initialize has run to its end with every transmission accepted
C19_Witness ==
    /\ op.name = "Initialize"
    /\ AllSent(tx)
    /\ Len(InitSteps) = 42
    /\ tx[Len(tx)].b = <<0, 128>>

\* the shadow state lcd_init has once its reset step is done, for a call made
\* in the current state
ResetStep == lcd_init_reset(Ctx(<<>>, 0)).s

\* C20: whatever the state before the call, once
\* Initialize has performed its reset step the shadow shows two-line mode,
\* eight-bit width, display off, sleep off, contrast 0 and all 16 icon entries
\* cleared.
C20_ResetToDefaults ==
    [][(op'.name = "Initialize") =>
         /\ ResetStep.isFunc_2LINE /\ ResetStep.isFunc_8Bit
         /\ ~ResetStep.isDisplayOn
         /\ ~ResetStep.isInSleep
         /\ ResetStep.uiContrast = 0
         /\ \A i \in 0..15 : ResetStep.aryIconValue[i] = 0]_vars

\* C21: a table switch by NormalMode or ExtendedMode that transmits sends one
\* FUNCTIONSET whose line-mode (0x08), double-height (0x04) and data-width
\* (0x10) bits are those of the shadow state before the call and whose
\* table-select bit is the target table, and isFunc_2LINE, isFunc_DoubleHeight
\* and isFunc_8Bit are unchanged by the call, for every combination of the
\* three fields.
C21_TableSwitchKeepsOtherBits ==
    [][(op'.name \in {"NormalMode", "ExtendedMode"}) =>
         /\ lcdSetting'.isFunc_2LINE = lcdSetting.isFunc_2LINE
         /\ lcdSetting'.isFunc_DoubleHeight = lcdSetting.isFunc_DoubleHeight
         /\ lcdSetting'.isFunc_8Bit = lcdSetting.isFunc_8Bit
         /\ (tx' # <<>>) =>
              /\ Len(tx') = 1
              /\ tx'[1].b =
                   <<0, 32 + (IF lcdSetting.isFunc_8Bit THEN 16 ELSE 0)
                           + (IF lcdSetting.isFunc_2LINE THEN 8 ELSE 0)
                           + (IF lcdSetting.isFunc_DoubleHeight THEN 4 ELSE 0)
                           + (IF op'.name = "ExtendedMode" THEN 1 ELSE 0)>>]_vars

\* C21 witness: NormalMode from the extended table with one line, double
\* height and four-bit width stored has sent 0x24
C21_Witness ==
    /\ op.name = "NormalMode"
    /\ tx = <<[b |-> <<0, 36>>, r |-> 2, is |-> FALSE]>>
    /\ ~lcdSetting.isFunc_2LINE /\ lcdSetting.isFunc_DoubleHeight
    /\ ~lcdSetting.isFunc_8Bit /\ ~lcdSetting.isFunc_ISMode

\* the DISPLAYONOFF byte for the three stored flags of s
StoredCursorMode(s) ==
    8 + (IF s.isDisplayOn THEN 4 ELSE 0) + (IF s.isUnderLine THEN 2 ELSE 0)
      + (IF s.isBlink THEN 1 ELSE 0)
\* the payloads of the DISPLAYONOFF commands (0x08..0x0F) of a log
DisplayOnOffSent(log) ==
    LET cmds == SelectSeq(log, LAMBDA e : IsCmd(e) /\ Payload(e) \in 8..15)
    IN [i \in DOMAIN cmds |-> Payload(cmds[i])]

\* C22: with underline or blink stored, CursorDisplay(false) transmits one
\* DISPLAYONOFF carrying only the stored display-on bit and leaves the stored
\* display, underline and blink flags as they are, and CursorDisplay(true)
\* transmits one DISPLAYONOFF built from the three stored flags and sets
\* isCursorDisplay; the three flags are at every moment those of the last
\* DISPLAYONOFF that lcd_CursorMode transmitted (CursorModeSet, Initialize),
\* no other operation changing them, so the byte of CursorDisplay(true) is the
\* byte of the last CursorModeSet.
C22_CursorHideThenShow ==
    [][/\ (op'.name = "CursorModeSet") =>
            DisplayOnOffSent(tx') = <<StoredCursorMode(lcdSetting')>>
       /\ (op'.name = "Initialize") =>
            DisplayOnOffSent(tx') = <<15, StoredCursorMode(lcdSetting')>>
       /\ (op'.name \notin {"CursorModeSet", "Initialize"}) =>
            StoredCursorMode(lcdSetting') = StoredCursorMode(lcdSetting)
       /\ (op'.name = "CursorDisplay"
              /\ (lcdSetting.isUnderLine \/ lcdSetting.isBlink)) =>
            IF op'.args[1]
            THEN /\ Bytes(tx') = << <<0, StoredCursorMode(lcdSetting)>> >>
                 /\ lcdSetting'.isCursorDisplay
            ELSE /\ Bytes(tx') =
                      << <<0, 8 + (IF lcdSetting.isDisplayOn THEN 4 ELSE 0)>> >>
                 /\ ~lcdSetting'.isCursorDisplay]_vars

\* C22 witness: CursorDisplay(false) has sent 0x0C with the display on and
\* underline without blink stored, as CursorModeSet(true, true, false) left them
C22_Witness ==
    /\ op.name = "CursorDisplay" /\ op.args = <<FALSE>>
    /\ Bytes(tx) = << <<0, 12>> >>
    /\ lcdSetting.isDisplayOn /\ lcdSetting.isUnderLine /\ ~lcdSetting.isBlink
    /\ ~lcdSetting.isCursorDisplay

(***************************************************************************)
(* SpecIcon: the icon operations over the antenna and two battery icons    *)
(* (which share address 0x0D) and over raw bit masks, in both write        *)
(* directions and from both instruction tables.                            *)
(***************************************************************************)
AllIconArgs == BOOLEAN \X {ANTENA, BAT1, BAT2}
\* raw masks: all five icon bits, and two bits of which one is BAT1
RawIconArgs == BOOLEAN \X {13} \X {31, 20}

NextIcon ==
    \/ Return
    \/ Initialize(Outcome)
    \/ SetEntryMode(Outcome, Bool1)
    \/ ExtendedMode(Reliable)
    \/ IconSet(Outcome, AllIconArgs)
    \/ IconSetRaw(Outcome, RawIconArgs)
    \/ IconSetAll(Outcome, Bool1)

SpecIcon == Init /\ [][NextIcon]_vars

\* the address and the bit mask an icon call o works on: LCD_ICON carries the
\* address in its high byte and the bit in its low byte
IconAddr(o) == IF o.name = "IconSet" THEN o.args[2] \div 256 ELSE o.args[2]
IconMask(o) == IF o.name = "IconSet" THEN o.args[2] % 256 ELSE o.args[3]
Bit(x, k) == (x \div (2 ^ k)) % 2
\* byte new is byte old with the bits of mask set (show) or cleared
IsWithBits(new, old, mask, show) ==
    /\ new \in 0..255
    /\ \A k \in 0..7 :
         Bit(new, k) = IF Bit(mask, k) = 1 THEN (IF show THEN 1 ELSE 0)
                       ELSE Bit(old, k)
\* the first five transmissions of the icon call o made in shadow state s:
\* FUNCTIONSET to the extended table, SETICON | address, the data byte,
\* FUNCTIONSET to the standard table, RETURNHOME
IconSetHead(log, s, o) ==
    /\ Len(log) >= 5
    /\ IsFunctionSet(log[1]) /\ Payload(log[1]) % 2 = 1
    /\ log[2].b = <<0, 64 + IconAddr(o)>>
    /\ log[3].b[1] = 64 /\ Len(log[3].b) = 2
    /\ IsWithBits(log[3].b[2], s.aryIconValue[IconAddr(o)], IconMask(o), o.args[1])
    /\ IsFunctionSet(log[4]) /\ Payload(log[4]) % 2 = 0
    /\ log[5].b = <<0, 2>>

\* C23 (as claimed; refuted): IconSet or IconSetRaw started in STANDARD
\* transmits exactly FUNCTIONSET (extended), SETICON | address, the data byte
\* (shadow byte with the bits set or cleared), FUNCTIONSET (standard) and
\* RETURNHOME, and the shadow icon byte equals the data byte afterwards.
C23_IconSetSequence ==
    [][(op'.name \in {"IconSet", "IconSetRaw"} /\ ~lcdSetting.isFunc_ISMode) =>
         /\ IconSetHead(tx', lcdSetting, op')
         /\ Len(tx') = 5
         /\ lcdSetting'.aryIconValue[IconAddr(op')] = tx'[3].b[2]]_vars

\* C23 (amended): as above, except that in right-to-left mode the closing
\* ReturnHome transmits SETDDRAMADDR 0x8F after RETURNHOME, as a sixth and
\* last command.
C23_IconSetThenReturnHome ==
    [][(op'.name \in {"IconSet", "IconSetRaw"} /\ ~lcdSetting.isFunc_ISMode) =>
         /\ IconSetHead(tx', lcdSetting, op')
         /\ IF lcdSetting.isDisplayToLeft
            THEN Len(tx') = 6 /\ tx'[6].b = <<0, 143>>
            ELSE Len(tx') = 5
         /\ lcdSetting'.aryIconValue[IconAddr(op')] = tx'[3].b[2]]_vars

\* C23 witness: in right-to-left mode IconSet(true, BAT2) with BAT1 shown has
\* sent the data byte 0x18 and six transmissions in all
C23_Witness ==
    /\ op.name = "IconSet" /\ op.args = <<TRUE, BAT2>>
    /\ lcdSetting.isDisplayToLeft
    /\ Len(tx) = 6 /\ tx[3].b = <<64, 24>> /\ tx[6].b = <<0, 143>>
    /\ lcdSetting.aryIconValue[13] = 24

\* the transmissions of a log that are not FUNCTIONSET table switches
NotFunctionSet(log) == SelectSeq(log, LAMBDA e : ~IsFunctionSet(e))
\* enum LCD_ICON: the icon bytes with exactly the bits of the 13 icons set
KnownIconBitmap ==
    [i \in 0..15 |->
        CASE i \in {0, 2, 4, 6, 9, 11, 15} -> 16
          [] i = 7 -> 24
          [] i = 13 -> 30
          [] OTHER -> 0]

C25_ReturnHomeByDirection ==
    (op.name = "ReturnHome") =>
        Bytes(tx) = IF lcdSetting.isDisplayToLeft
                    THEN << <<0, 2>>, <<0, 143>> >>
                    ELSE << <<0, 2>> >>

\* C25 witness: ReturnHome in right-to-left mode has sent 0x02 and 0x8F
C25_Witness ==
    /\ op.name = "ReturnHome"
    /\ lcdSetting.isDisplayToLeft
    /\ Bytes(tx) = << <<0, 2>>, <<0, 143>> >> /\ AllSent(tx)

SingleSendFailed(log) == Len(log) = 1 /\ log[1].r < 0

\* C27 (as claimed; refuted): when the single transmission of FunctionSet,
\* SetEntryMode or CursorModeSet fails, the shadow fields the operation sets
\* keep their previous values.
C27_ShadowKeptOnFailure ==
    [][(op'.name \in {"FunctionSet", "SetEntryMode", "CursorModeSet"}
          /\ SingleSendFailed(tx')) =>
         lcdSetting' = lcdSetting]_vars

\* C27 (amended): FunctionSet, SetEntryMode and CursorModeSet store the
\* requested values in the shadow state whatever the result of their single
\* transmission, a transport error included.
C27_ShadowStoredDespiteFailure ==
    [][/\ (op'.name = "FunctionSet") =>
            /\ Len(tx') = 1
            /\ lcdSetting'.isFunc_8Bit = op'.args[1]
            /\ lcdSetting'.isFunc_2LINE = op'.args[2]
            /\ lcdSetting'.isFunc_DoubleHeight = ~op'.args[2]
            /\ lcdSetting'.isFunc_ISMode = op'.args[3]
       /\ (op'.name = "SetEntryMode") =>
            /\ Len(tx') = 1
            /\ lcdSetting'.isDisplayToLeft = op'.args[1]
       /\ (op'.name = "CursorModeSet") =>
            /\ Len(tx') = 1
            /\ lcdSetting'.isDisplayOn = op'.args[1]
            /\ lcdSetting'.isUnderLine = op'.args[2]
            /\ lcdSetting'.isBlink = op'.args[3]
            /\ lcdSetting'.isCursorDisplay = (op'.args[2] \/ op'.args[3])]_vars

\* C27 witness: SetEntryMode(true) has stored right-to-left although its
\* transmission failed
C27_Witness ==
    /\ op.name = "SetEntryMode" /\ op.args = <<TRUE>>
    /\ SingleSendFailed(tx)
    /\ lcdSetting.isDisplayToLeft

\* C28: when ContrastAndPowerIconSet or ContrastSet stops early because a
\* contrast send did not report 2 bytes, the shadow table is STANDARD when
\* the call returns.
C28_StandardAfterContrastAbort ==
    (op.name \in {"ContrastAndPowerIconSet", "ContrastSet"} /\ ContrastSendFailed(tx)) =>
        ~lcdSetting.isFunc_ISMode

\* C29: Sleep(true) on a display that is awake ends with isInSleep set, and
\* Sleep(false) on one that is asleep ends with isInSleep cleared, whatever
\* the results of the transmissions in between; entering sleep leaves the
\* stored followerAmpRatio and uiContrast as they were.
C29_SleepFlagUnconditional ==
    [][(op'.name = "Sleep" /\ op'.args[1] # lcdSetting.isInSleep) =>
         /\ tx' # <<>>
         /\ lcdSetting'.isInSleep = op'.args[1]
         /\ op'.args[1] =>
              /\ lcdSetting'.followerAmpRatio = lcdSetting.followerAmpRatio
              /\ lcdSetting'.uiContrast = lcdSetting.uiContrast]_vars

\* C29 witness: Sleep(true) has set isInSleep although its FOLLOWERCTRL
\* power-down command failed; gain 7 and contrast 37 are still stored
C29_Witness ==
    /\ op.name = "Sleep" /\ op.args = <<TRUE>>
    /\ \E i \in DOMAIN tx : tx[i].b = <<0, 96>> /\ tx[i].r < 0
    /\ lcdSetting.isInSleep
    /\ lcdSetting.followerAmpRatio = 7 /\ lcdSetting.uiContrast = 37

\* C30: for every count in -128..127, DisplayShift(count) and
\* MoveCursor(count) each issue exactly |count| CURSORSHIFT transmissions;
\* DisplayShift sends 0x18 (left) for a negative and 0x1C (right) for a
\* positive count, MoveCursor sends 0x10 (left) and 0x14 (right).
C30_ShiftCountAllInt8 ==
    (op.name \in {"DisplayShift", "MoveCursor"}) =>
        /\ Len(tx) = Abs(op.args[1])
        /\ \A i \in DOMAIN tx :
               tx[i].b = <<0, (IF op.name = "DisplayShift" THEN 24 ELSE 16)
                              + (IF op.args[1] < 0 THEN 0 ELSE 4)>>

(***************************************************************************)
(* SpecRange: the operations that store a numeric setting, called with     *)
(* values inside and outside the ranges of the chip's fields.              *)
(***************************************************************************)
WideFollowerArgs == {TRUE} \X {7, 12, 255}
WideOscArgs == {FALSE} \X {7, 9}
WideContrastArgs == {<<63, TRUE, TRUE>>, <<100, TRUE, TRUE>>}
WideContrastSetArgs == {<<64>>, <<300>>}

NextRange ==
    \/ Return
    \/ Initialize(Outcome)
    \/ FollowerControlSet(Reliable, WideFollowerArgs)
    \/ InternalOscillatorSet(Reliable, WideOscArgs)
    \/ ContrastAndPowerIconSet(Reliable, WideContrastArgs)
    \/ ContrastSet(Outcome, WideContrastSetArgs)
    \/ Sleep(Reliable, Bool1)

SpecRange == Init /\ [][NextRange]_vars

\* C31: whatever the argument values of the operations called, the stored
\* uiContrast is at most 63, the stored followerAmpRatio at most 7 and the
\* stored OSCFreq at most 7.
C31_StoredValuesInRange ==
    /\ lcdSetting.uiContrast \in 0..63
    /\ lcdSetting.followerAmpRatio \in 0..7
    /\ lcdSetting.OSCFreq \in 0..7

(***************************************************************************)
(* SpecLong: text writes of strings of TextLengths characters, through     *)
(* lcd_string and through lcd_printf.                                      *)
(***************************************************************************)
\* up to the screen size, just over it, and around the range of the loop index
TextLengths == {0, 1, 32, 33, 40, 255, 256, 300}
LongTextArgs == {<<[i \in 1..n |-> 65]>> : n \in TextLengths}

NextLong ==
    \/ Return
    \/ Initialize(Outcome)
    \/ SetEntryMode(Outcome, Bool1)
    \/ SetCursorPosition(Outcome, PositionArgs)
    \/ WriteText(Outcome, LongTextArgs)
    \/ FormattedWrite(Outcome, LongTextArgs)

SpecLong == Init /\ [][NextLong]_vars

\* C32: no text write stores beyond t_data[32] or hands more than 33 bytes of
\* the buffer to the transport: FormattedWrite transmits the first 32
\* characters of its output, and WriteText stays inside the buffer for a
\* string of any length.
C32_TextStaysInBuffer ==
    (op.name \in {"WriteText", "FormattedWrite"}) =>
        /\ t_data.top <= 32
        /\ \A i \in DOMAIN tx : Len(tx[i].b) <= 33
        /\ (op.name = "FormattedWrite") =>
              /\ Len(tx) = 1
              /\ Tail(tx[1].b) = SubSeq(op.args[1], 1, Min(Len(op.args[1]), 32))

\* C33: WriteText comes to an end for a string of every length: the copy loop
\* is left and, unless the call was lost to an overrun of the buffer (C32),
\* one transmission is issued.
C33_WriteTextTerminates ==
    (op.name = "WriteText") =>
        /\ t_data.done
        /\ ~t_data.lost => Len(tx) = 1

(***************************************************************************)
(* The shadow instruction table against the table of the chip.             *)
(***************************************************************************)
InSync == chipIS = <<lcdSetting.isFunc_ISMode>>
NoFailedFunctionSet(log) ==
    \A i \in DOMAIN log : IsFunctionSet(log[i]) => Sent(log[i])

\* C34: the shadow instructionTable follows the chip's table (the table-select
\* bit of the last FUNCTIONSET delivered): an operation none of whose
\* FUNCTIONSET transmissions failed, started with the two equal or being
\* Initialize, ends with the two equal, whatever its other transmissions did;
\* so from Initialize on the two differ only after a failed FUNCTIONSET.
C34_ShadowTableFollowsChip ==
    [][(/\ op'.name \notin {"boot", "idle"}
        /\ NoFailedFunctionSet(tx')
        /\ (InSync \/ op'.name = "Initialize"))
       => InSync']_vars

\* an operation that lost a command other than FUNCTIONSET and returned early:
\* chip and shadow are both left in the extended table
C34_Witness ==
    /\ Called
    /\ ~AllSent(tx)
    /\ NoFailedFunctionSet(tx)
    /\ \E i \in DOMAIN tx : IsFunctionSet(tx[i])
    /\ lcdSetting.isFunc_ISMode
    /\ InSync

\* the shadow without its icon bitmap and its instruction table
NonIconFields(s) == [s EXCEPT !.aryIconValue = <<>>, !.isFunc_ISMode = FALSE]

\* C35: IconSet(show, icon) changes the bit of the icon in the entry of its
\* address and nothing else of the shadow: the other 15 entries and the other
\* bits of the entry are as before, no other field changes, and a call that
\* started in the standard table ends in it.
C35_IconSetFrame ==
    [][(op'.name = "IconSet") =>
         /\ \A i \in (0..15) \ {IconAddr(op')} :
              lcdSetting'.aryIconValue[i] = lcdSetting.aryIconValue[i]
         /\ IsWithBits(lcdSetting'.aryIconValue[IconAddr(op')],
                       lcdSetting.aryIconValue[IconAddr(op')],
                       IconMask(op'), op'.args[1])
         /\ NonIconFields(lcdSetting') = NonIconFields(lcdSetting)
         /\ ~lcdSetting.isFunc_ISMode => ~lcdSetting'.isFunc_ISMode]_vars

\* BAT1 hidden while BAT2, BAT3 and BATTERY (address 13) and the antenna
\* (address 0) stay shown
C35_Witness ==
    /\ op.name = "IconSet" /\ op.args = <<FALSE, BAT1>>
    /\ lcdSetting.aryIconValue[13] = 14
    /\ lcdSetting.aryIconValue[0] = 16
    /\ ~AllSent(tx)

(***************************************************************************)
(* SpecReinit: Initialize called again from the shadow states the other    *)
(* operations leave, lost transmissions and early returns included.        *)
(***************************************************************************)
ReinitCursorModes == {<<TRUE, FALSE, FALSE>>, <<FALSE, TRUE, FALSE>>}

\* lcd_init() called again; the shadow state it is called in is kept with the
\* operation
Reinitialize(R) ==
    /\ Initialised
    /\ \E res \in Results(R, 1) :
        Do("Initialize", <<lcdSetting>>, lcd_init(Ctx(res, 0)))

NextReinit ==
    \/ Return
    \/ Initialize(Outcome)
    \/ Reinitialize(Outcome)
    \/ SetEntryMode(Reliable, Bool1)
    \/ ExtendedMode(Outcome)
    \/ FunctionSet(Reliable, {<<TRUE, FALSE, FALSE>>})
    \/ ContrastSet(Outcome, ContrastSetArgs)
    \/ FollowerControlSet(Reliable, WideFollowerArgs)
    \/ CursorModeSet(Reliable, ReinitCursorModes)
    \/ CursorDisplay(Reliable, Bool1)
    \/ IconSet(Reliable, IconArgs)
    \/ Sleep(Reliable, Bool1)

SpecReinit == Init /\ [][NextReinit]_vars

\* lcd_init called in the zero-initialised shadow state of program start, with
\* every transmission accepted
FirstInit == lcd_init([Ctx(<<>>, 0) EXCEPT !.s = ZeroSetting])

\* C36: an Initialize all of whose transmissions are accepted transmits the
\* bytes, and ends in the shadow state, of the first Initialize after program
\* start, whatever the shadow state it was called in: STANDARD table,
\* two-line, eight-bit, left-to-right, not sleeping, icons cleared; chip and
\* shadow table agree afterwards.
C36_ReinitStateIndependent ==
    (op.name = "Initialize" /\ AllSent(tx)) =>
        /\ Bytes(tx) = Bytes(FirstInit.tx)
        /\ lcdSetting = FirstInit.s
        /\ ~lcdSetting.isFunc_ISMode /\ lcdSetting.isFunc_2LINE
        /\ lcdSetting.isFunc_8Bit /\ ~lcdSetting.isDisplayToLeft
        /\ ~lcdSetting.isInSleep
        /\ \A i \in 0..15 : lcdSetting.aryIconValue[i] = 0
        /\ InSync


\* Initialize accepted in full after it was called asleep, in the extended
\* table, writing right to left, in one-line mode, with BAT1 shown and a
\* follower gain of 255 stored
C36_Witness ==
    /\ op.name = "Initialize" /\ AllSent(tx)
    /\ op.args # <<>>
    /\ op.args[1].isInSleep
    /\ op.args[1].isFunc_ISMode
    /\ op.args[1].isDisplayToLeft
    /\ ~op.args[1].isFunc_2LINE
    /\ op.args[1].aryIconValue[13] # 0
    /\ op.args[1].followerAmpRatio = 255
    /\ Len(tx) = 85
    /\ lcdSetting = FirstInit.s

=============================================================================
